---- MODULE Spec2Model ----
(***************************************************************************)
(* Roster allocation engine of fantasy-bot: optimizer.build_lineup and     *)
(* il_manager.check_il_flags.  Player dicts are modelled as functions from *)
(* field names to values, so that an absent key is an absent key.          *)
(***************************************************************************)
EXTENDS Integers, Sequences, FiniteSets, TLC

(***************************************************************************)
(* Bounds of the model                                                     *)
(***************************************************************************)
MaxRoster == 5

MaxIlRoster == 4

(***************************************************************************)
(* Generic list / dict helpers (Python semantics)                          *)
(***************************************************************************)
Names == <<"P1", "P2", "P3", "P4", "P5", "P6", "P7", "P8">>

\* dict.get(key, default)
Get(d, k, dflt) == IF k \in DOMAIN d THEN d[k] ELSE dflt

\* key in dict
HasKey(d, k) == k \in DOMAIN d

\* mutant: the element is not removed
RemoveFirst_Keep(s, x) == s

\* list.remove(x): drops the first element equal to x
RECURSIVE RemoveFirst(_, _)
RemoveFirst(s, x) ==
    IF s = <<>> THEN <<>>
    ELSE IF Head(s) = x THEN Tail(s)
    ELSE <<Head(s)>> \o RemoveFirst(Tail(s), x)

\* [x for x in s if keep(x)]
Filter(s, keep(_)) == SelectSeq(s, keep)

\* insertion of x into a list t sorted by key, after every element whose
\* key is not greater: the order Python's stable sort gives
InsertSorted(t, x, key(_)) ==
    LET n == Cardinality({j \in 1..Len(t) : key(t[j]) <= key(x)})
    IN  SubSeq(t, 1, n) \o <<x>> \o SubSeq(t, n + 1, Len(t))

\* sorted(s, key=key): ascending, stable
SortedBy(s, key(_)) ==
    LET S[i \in 0..Len(s)] ==
            IF i = 0 THEN <<>> ELSE InsertSorted(S[i - 1], s[i], key)
    IN  S[Len(s)]

\* max(idxs, key=key) over a non-empty list: the first maximal element
MaxFirst(idxs, key(_)) ==
    LET j == CHOOSE j \in 1..Len(idxs) :
                 /\ \A k \in 1..Len(idxs) : key(idxs[k]) <= key(idxs[j])
                 /\ \A k \in 1..(j - 1) : key(idxs[k]) < key(idxs[j])
    IN  idxs[j]

(***************************************************************************)
(* optimizer.py: slot / position definitions                               *)
(***************************************************************************)
ACTIVE_SLOTS == <<"PG", "SG", "G", "SF", "PF", "F", "C", "C", "UTIL", "UTIL">>

BENCH_SLOTS == <<"BN", "BN", "BN">>

\* mutant: core starters first
SWAP_PRIORITY_StableFirst ==
    << <<"PG", "stable">>, <<"SG", "stable">>, <<"SF", "stable">>,
       <<"PF", "stable">>, <<"C", "stable">>,
       <<"G", "flex">>, <<"F", "flex">>, <<"C", "flex">>,
       <<"UTIL", "flex">> >>

SWAP_PRIORITY ==
    << <<"UTIL", "flex">>,
       <<"G", "flex">>, <<"F", "flex">>, <<"C", "flex">>,
       <<"PG", "stable">>, <<"SG", "stable">>, <<"SF", "stable">>,
       <<"PF", "stable">>, <<"C", "stable">> >>

AllPositions == {"PG", "SG", "SF", "PF", "C", "G", "F"}

SLOT_ELIGIBILITY ==
    [s \in {"PG", "SG", "G", "SF", "PF", "F", "C", "UTIL", "BN"} |->
        CASE s = "PG"   -> {"PG"}
          [] s = "SG"   -> {"SG"}
          [] s = "G"    -> {"PG", "SG"}
          [] s = "SF"   -> {"SF"}
          [] s = "PF"   -> {"PF"}
          [] s = "F"    -> {"SF", "PF"}
          [] s = "C"    -> {"C"}
          [] s = "UTIL" -> AllPositions
          [] s = "BN"   -> AllPositions]

STABLE_LOW_RANK_THRESHOLD == 60

\* (slot, count) pairs
STABLE_FILL_ORDER ==
    << <<"C", 1>>, <<"PG", 1>>, <<"SG", 1>>, <<"SF", 1>>, <<"PF", 1>> >>

FLEX_FILL_ORDER ==
    << <<"C", 1>>, <<"G", 1>>, <<"F", 1>>, <<"UTIL", 2>> >>

HARD_OUT == {"INJ", "O", "NA"}

IL_SLOT_CODES == {"IL", "IL+"}

MissingRank == 999

UntouchableBonus == 10000

(***************************************************************************)
(* optimizer.py: internal helpers                                          *)
(***************************************************************************)
\* mutant: any position opens any slot
_player_eligible_for_slot_AnySlot(player, slot) ==
    Get(player, "positions", {}) # {}

\* any(pos in SLOT_ELIGIBILITY.get(slot, []) for pos in player["positions"])
_player_eligible_for_slot(player, slot) ==
    LET eligible_positions == Get(player, "positions", {})
        slot_requires == IF slot \in DOMAIN SLOT_ELIGIBILITY
                         THEN SLOT_ELIGIBILITY[slot] ELSE {}
    IN  eligible_positions \cap slot_requires # {}

\* mutant: untouchables get no bonus
_rank_sort_key_NoBonus(player, unt, use_14day) ==
    IF HasKey(player, "ht_score")
    THEN -player["ht_score"]
    ELSE IF use_14day
         THEN Get(player, "ht_rank_14d", Get(player, "yahoo_14day_rank", MissingRank))
         ELSE Get(player, "ht_rank_30d", Get(player, "yahoo_30day_rank", MissingRank))

\* Sort key, lower = better.  Composite scores are integers here.
_rank_sort_key(player, unt, use_14day) ==
    LET is_untouchable == player["name"] \in DOMAIN unt
    IN  IF HasKey(player, "ht_score")
        THEN -(player["ht_score"] + (IF is_untouchable THEN UntouchableBonus ELSE 0))
        ELSE LET rank ==
                   IF use_14day
                   THEN Get(player, "ht_rank_14d",
                            Get(player, "yahoo_14day_rank", MissingRank))
                   ELSE Get(player, "ht_rank_30d",
                            Get(player, "yahoo_30day_rank", MissingRank))
             IN  rank + (IF is_untouchable THEN -UntouchableBonus ELSE 0)

\* mutant: players ruled out are not candidates
_best_player_for_slot_Playable(slot, candidates, unt, use_14day) ==
    LET IsEligible(p) == /\ _player_eligible_for_slot(p, slot)
                         /\ Get(p, "status", "healthy") \notin {"INJ", "O", "NA"}
        Key(p) == _rank_sort_key(p, unt, use_14day)
        eligible == SortedBy(Filter(candidates, IsEligible), Key)
    IN  IF eligible = <<>> THEN <<>> ELSE <<eligible[1]>>

\* eligible candidates in list order, stably sorted; the result is a list of
\* at most one player, <<>> standing for None
_best_player_for_slot(slot, candidates, unt, use_14day) ==
    LET IsEligible(p) == _player_eligible_for_slot(p, slot)
        Key(p) == _rank_sort_key(p, unt, use_14day)
        eligible == SortedBy(Filter(candidates, IsEligible), Key)
    IN  IF eligible = <<>> THEN <<>> ELSE <<eligible[1]>>

(***************************************************************************)
(* Inputs: rosters as get_my_roster and main.py hand them over.  A status  *)
(* is always present; here composite score and HT ranks come together.    *)
(***************************************************************************)
PlayerKinds ==
    << \* 1: guard, no game today
       [positions |-> {"PG"}, status |-> "healthy", current_slot |-> "PG",
        has_game_today |-> FALSE, yahoo_30day_rank |-> 20, yahoo_14day_rank |-> 40],
       \* 2: guard with a game today, worse ranks
       [positions |-> {"PG"}, status |-> "healthy", current_slot |-> "BN",
        has_game_today |-> TRUE, yahoo_30day_rank |-> 70, yahoo_14day_rank |-> 50],
       \* 3: guard ruled out, with a game today
       [positions |-> {"PG"}, status |-> "O", current_slot |-> "G",
        has_game_today |-> TRUE, yahoo_30day_rank |-> 90, yahoo_14day_rank |-> 90],
       \* 4: no eligible positions, unranked
       [positions |-> {}, status |-> "healthy", current_slot |-> "BN",
        has_game_today |-> FALSE, yahoo_30day_rank |-> 999, yahoo_14day_rank |-> 999],
       \* 5: generic guard (eligible for UTIL only), questionable, no game today
       [positions |-> {"G"}, status |-> "Q", current_slot |-> "UTIL",
        has_game_today |-> FALSE, yahoo_30day_rank |-> 60, yahoo_14day_rank |-> 50],
       \* 6: injured forward in an IL-type slot (see RosterOf for the code)
       [positions |-> {"SF", "PF"}, status |-> "INJ", current_slot |-> "IL",
        has_game_today |-> TRUE, yahoo_30day_rank |-> 30, yahoo_14day_rank |-> 30],
       \* 7: scored generic guard (eligible for UTIL only), day-to-day, game today
       [positions |-> {"G"}, status |-> "DTD", current_slot |-> "BN",
        has_game_today |-> TRUE, yahoo_30day_rank |-> 80, yahoo_14day_rank |-> 80,
        ht_score |-> 1, ht_rank_30d |-> 85, ht_rank_14d |-> 15] >>

\* kinds whose players are named in the untouchables mapping
UntouchableKinds == {7}

UntouchableWeight == 95

\* the roster whose i-th player is of kind f[i]; names are unique, and an
\* IL-type player sits in IL at odd roster positions and in IL+ at even ones
RosterOf(f) ==
    [i \in 1..Len(f) |->
        LET kind == PlayerKinds[f[i]]
            slot == IF kind.current_slot = "IL" /\ i % 2 = 0 THEN "IL+"
                    ELSE kind.current_slot
        IN  ("name" :> Names[i]) @@ [kind EXCEPT !.current_slot = slot]]

UntouchablesOf(f) ==
    [n \in {Names[i] : i \in {j \in 1..Len(f) : f[j] \in UntouchableKinds}}
        |-> UntouchableWeight]

KindChoices(maxLen) ==
    UNION {[1..n -> 1..Len(PlayerKinds)] : n \in 0..maxLen}

(***************************************************************************)
(* State                                                                   *)
(***************************************************************************)
VARIABLES
    roster,            \* input: list of player dicts
    untouchables,      \* input: {name: mvp_percent}
    pc,                \* position in build_lineup / check_il_flags
    on_il,             \* build_lineup: roster players in an IL slot
    unassigned,        \* build_lineup: pool of unassigned players
    assigned_active,   \* build_lineup: active entries
    assigned_bench,    \* build_lineup: bench entries
    bench_with_game,   \* build_lineup: swap candidates, best first
    swap_pos,          \* build_lineup: index of the next swap candidate
    swap_log,          \* history: one record per swap performed
    il_formatted,      \* build_lineup: formatted IL players
    should_move_to_il,         \* check_il_flags result
    should_activate_from_il,   \* check_il_flags result
    free_agents,       \* waiver scanner input: list of free-agent dicts
    opportunities,     \* waiver scanner: opportunities before deduplication
    waiver_active,     \* scan_active_upgrades result
    waiver_bench,      \* scan_bench_upgrades result
    bench_shape        \* check_bench_shape result: <<>> before the call

vars == <<roster, untouchables, pc, on_il, unassigned, assigned_active,
          assigned_bench, bench_with_game, swap_pos, swap_log, il_formatted,
          should_move_to_il, should_activate_from_il,
          free_agents, opportunities, waiver_active, waiver_bench, bench_shape>>

lineupVars == <<on_il, unassigned, assigned_active, assigned_bench,
                bench_with_game, swap_pos, swap_log, il_formatted>>

ilVars == <<should_move_to_il, should_activate_from_il>>

waiverVars == <<free_agents, opportunities, waiver_active, waiver_bench>>

Blank ==
    /\ on_il = <<>>
    /\ unassigned = <<>>
    /\ assigned_active = <<>>
    /\ assigned_bench = <<>>
    /\ bench_with_game = <<>>
    /\ swap_pos = 1
    /\ swap_log = <<>>
    /\ il_formatted = <<>>
    /\ should_move_to_il = <<>>
    /\ should_activate_from_il = <<>>
    /\ free_agents = <<>>
    /\ opportunities = <<>>
    /\ waiver_active = <<>>
    /\ waiver_bench = <<>>
    /\ bench_shape = <<>>

Init ==
    /\ \E f \in KindChoices(MaxRoster) :
          /\ roster = RosterOf(f)
          /\ untouchables = UntouchablesOf(f)
    /\ pc = "partition"
    /\ Blank

(***************************************************************************)
(* build_lineup                                                            *)
(***************************************************************************)
\* mutant: IL+ is not recognised
IsIlPlayer_OnlyIL(player) == Get(player, "current_slot", "BN") = "IL"

IsIlPlayer(player) == Get(player, "current_slot", "BN") \in IL_SLOT_CODES

\* the shallow copy with the convenience fields attached
Available(player, unt) ==
    ("has_game_today" :> Get(player, "has_game_today", FALSE))
    @@ ("is_untouchable" :> (player["name"] \in DOMAIN unt))
    @@ player

\* Split roster into IL players and available players
Partition ==
    /\ pc = "partition"
    /\ on_il' = Filter(roster, IsIlPlayer)
    /\ LET NotIl(p) == ~IsIlPlayer(p)
           avail == Filter(roster, NotIl)
       IN  unassigned' = [i \in 1..Len(avail) |-> Available(avail[i], untouchables)]
    /\ pc' = "stable"
    /\ UNCHANGED <<roster, untouchables, assigned_active, assigned_bench,
                   bench_with_game, swap_pos, swap_log, il_formatted, ilVars, waiverVars, bench_shape>>

InjuredStatuses == {"INJ", "O", "Q", "DTD"}

\* {"ht_score": x["ht_score"]} when the score is present, else {}
HtScoreOf(x) ==
    IF HasKey(x, "ht_score") THEN ("ht_score" :> x["ht_score"]) ELSE <<>>

\* the active entry _fill_slots builds for the chosen player
FillEntry(chosen, slot, is_stable, unt) ==
    LET rank_30 == Get(chosen, "yahoo_30day_rank", MissingRank)
        rank_14 == Get(chosen, "yahoo_14day_rank", MissingRank)
        status == Get(chosen, "status", "healthy")
    IN  HtScoreOf(chosen) @@
        [name |-> chosen["name"],
         slot |-> slot,
         rank_30day |-> rank_30,
         rank_14day |-> rank_14,
         has_game_today |-> Get(chosen, "has_game_today", FALSE),
         injury_status |-> status,
         is_untouchable |-> chosen["name"] \in DOMAIN unt,
         flag_low_rank |-> IF is_stable THEN rank_30 > STABLE_LOW_RANK_THRESHOLD
                           ELSE FALSE,
         flag_injured |-> status \in InjuredStatuses /\ slot \notin IL_SLOT_CODES,
         positions |-> Get(chosen, "positions", {}),
         slot_type |-> IF is_stable THEN "stable" ELSE "flex"]

\* mutant: every slot has one place more
RECURSIVE ExpandOrder_ExtraPlace(_)
ExpandOrder_ExtraPlace(fill_order) ==
    IF fill_order = <<>> THEN <<>>
    ELSE [i \in 1..(Head(fill_order)[2] + 1) |-> Head(fill_order)[1]]
         \o ExpandOrder_ExtraPlace(Tail(fill_order))

\* the slots of a fill order, each repeated count times
RECURSIVE ExpandOrder(_)
ExpandOrder(fill_order) ==
    IF fill_order = <<>> THEN <<>>
    ELSE [i \in 1..Head(fill_order)[2] |-> Head(fill_order)[1]]
         \o ExpandOrder(Tail(fill_order))

\* mutant: the pass ends at the first slot nobody can fill
_fill_slots_StopAtGap(fill_order, use_14day, is_stable, pool, active, unt) ==
    LET slots == ExpandOrder(fill_order)
        F[i \in 0..Len(slots)] ==
            IF i = 0 THEN [pool |-> pool, active |-> active, stopped |-> FALSE]
            ELSE LET prev == F[i - 1]
                     chosen == _best_player_for_slot(slots[i], prev.pool, unt, use_14day)
                 IN  IF prev.stopped \/ chosen = <<>>
                     THEN [prev EXCEPT !.stopped = TRUE]
                     ELSE [pool |-> RemoveFirst(prev.pool, chosen[1]),
                           active |-> Append(prev.active,
                                         FillEntry(chosen[1], slots[i], is_stable, unt)),
                           stopped |-> FALSE]
    IN  F[Len(slots)]

\* one pass of _fill_slots over the pool and the active list
_fill_slots(fill_order, use_14day, is_stable, pool, active, unt) ==
    LET slots == ExpandOrder(fill_order)
        F[i \in 0..Len(slots)] ==
            IF i = 0 THEN [pool |-> pool, active |-> active]
            ELSE LET prev == F[i - 1]
                     chosen == _best_player_for_slot(slots[i], prev.pool, unt, use_14day)
                 IN  IF chosen = <<>> THEN prev
                     ELSE [pool |-> RemoveFirst(prev.pool, chosen[1]),
                           active |-> Append(prev.active,
                                         FillEntry(chosen[1], slots[i], is_stable, unt))]
    IN  F[Len(slots)]

\* Phase 1: stable slots by 30-day signal
FillStable ==
    /\ pc = "stable"
    /\ \E r \in {_fill_slots(STABLE_FILL_ORDER, FALSE, TRUE,
                            unassigned, assigned_active, untouchables)} :
           /\ unassigned' = r.pool
           /\ assigned_active' = r.active
    /\ pc' = "flex"
    /\ UNCHANGED <<roster, untouchables, on_il, assigned_bench, bench_with_game,
                   swap_pos, swap_log, il_formatted, ilVars, waiverVars, bench_shape>>

\* mutant: the status is not looked at
IsSwapCandidate_AnyStatus(p) == Get(p, "has_game_today", FALSE)

\* p.get("has_game_today") and p.get("status") not in HARD_OUT
IsSwapCandidate(p) ==
    /\ Get(p, "has_game_today", FALSE)
    /\ (~HasKey(p, "status") \/ p["status"] \notin HARD_OUT)

\* mutant: the candidates keep the order of the pool
BenchWithGame_Unsorted(pool, unt) == Filter(pool, IsSwapCandidate)

\* Bench players with a game today, playable status, sorted best-first
BenchWithGame(pool, unt) ==
    LET Key(p) == _rank_sort_key(p, unt, FALSE)
    IN  SortedBy(Filter(pool, IsSwapCandidate), Key)

\* Phase 2: flex slots by 14-day signal, then the swap candidates are drawn
\* from what is left
FillFlex ==
    /\ pc = "flex"
    /\ \E r \in {_fill_slots(FLEX_FILL_ORDER, TRUE, FALSE,
                            unassigned, assigned_active, untouchables)} :
           /\ unassigned' = r.pool
           /\ assigned_active' = r.active
           /\ bench_with_game' = BenchWithGame(r.pool, untouchables)
    /\ swap_pos' = 1
    /\ pc' = "swap"
    /\ UNCHANGED <<roster, untouchables, on_il, assigned_bench, swap_log,
                   il_formatted, ilVars, waiverVars, bench_shape>>

\* mutant: core starters are never displaced
TierCandidates_FlexOnly(active, bench_player, prio) ==
    LET Qualifies(idx) ==
            /\ active[idx]["slot"] = prio[1]
            /\ active[idx]["slot_type"] = prio[2]
            /\ prio[2] = "flex"
            /\ ~active[idx]["has_game_today"]
            /\ _player_eligible_for_slot(bench_player, prio[1])
    IN  Filter([i \in 1..Len(active) |-> i], Qualifies)

\* indices of the active entries of one priority tier that the bench player
\* may displace, in list order
TierCandidates(active, bench_player, prio) ==
    LET Qualifies(idx) ==
            /\ active[idx]["slot"] = prio[1]
            /\ active[idx]["slot_type"] = prio[2]
            /\ ~active[idx]["has_game_today"]
            /\ _player_eligible_for_slot(bench_player, prio[1])
    IN  Filter([i \in 1..Len(active) |-> i], Qualifies)

\* best_swap_idx: <<>> stands for None
BestSwapIdx(active, bench_player, unt) ==
    LET Key(i) == _rank_sort_key(active[i], unt, FALSE)
        tiers == {t \in 1..Len(SWAP_PRIORITY) :
                     TierCandidates(active, bench_player, SWAP_PRIORITY[t]) # <<>>}
    IN  IF tiers = {} THEN <<>>
        ELSE LET first == CHOOSE t \in tiers : \A u \in tiers : t <= u
             IN  <<MaxFirst(TierCandidates(active, bench_player, SWAP_PRIORITY[first]),
                            Key)>>

\* mutant: a promoted player is never flagged for low rank
SwapEntry_Unflagged(bench_player, displaced, unt) ==
    HtScoreOf(bench_player) @@
    [name |-> bench_player["name"],
     slot |-> displaced["slot"],
     rank_30day |-> Get(bench_player, "yahoo_30day_rank", MissingRank),
     rank_14day |-> Get(bench_player, "yahoo_14day_rank", MissingRank),
     has_game_today |-> TRUE,
     injury_status |-> Get(bench_player, "status", "healthy"),
     is_untouchable |-> bench_player["name"] \in DOMAIN unt,
     flag_low_rank |-> FALSE,
     flag_injured |-> Get(bench_player, "status", "healthy") \in InjuredStatuses,
     positions |-> Get(bench_player, "positions", {}),
     slot_type |-> displaced["slot_type"]]

\* the entry that replaces the displaced one
SwapEntry(bench_player, displaced, unt) ==
    LET rank_30 == Get(bench_player, "yahoo_30day_rank", MissingRank)
        rank_14 == Get(bench_player, "yahoo_14day_rank", MissingRank)
        status == Get(bench_player, "status", "healthy")
        is_stable == displaced["slot_type"] = "stable"
    IN  HtScoreOf(bench_player) @@
        [name |-> bench_player["name"],
         slot |-> displaced["slot"],
         rank_30day |-> rank_30,
         rank_14day |-> rank_14,
         has_game_today |-> TRUE,
         injury_status |-> status,
         is_untouchable |-> bench_player["name"] \in DOMAIN unt,
         flag_low_rank |-> IF is_stable THEN rank_30 > STABLE_LOW_RANK_THRESHOLD
                           ELSE FALSE,
         flag_injured |-> status \in InjuredStatuses,
         positions |-> Get(bench_player, "positions", {}),
         slot_type |-> displaced["slot_type"]]

\* the player dict rebuilt from a displaced entry
Reconstructed(displaced) ==
    HtScoreOf(displaced) @@
    [name |-> displaced["name"],
     positions |-> Get(displaced, "positions", {}),
     status |-> displaced["injury_status"],
     has_game_today |-> displaced["has_game_today"],
     is_untouchable |-> displaced["is_untouchable"],
     yahoo_30day_rank |-> displaced["rank_30day"],
     yahoo_14day_rank |-> displaced["rank_14day"]]

\* one iteration of the loop over bench_with_game
SwapStep ==
    /\ pc = "swap"
    /\ swap_pos <= Len(bench_with_game)
    /\ LET bench_player == bench_with_game[swap_pos]
           best_swap_idx == BestSwapIdx(assigned_active, bench_player, untouchables)
       IN  IF best_swap_idx # <<>>
           THEN LET idx == best_swap_idx[1]
                    displaced == assigned_active[idx]
                IN  /\ assigned_active' =
                          [assigned_active EXCEPT
                              ![idx] = SwapEntry(bench_player, displaced, untouchables)]
                    /\ unassigned' = Append(RemoveFirst(unassigned, bench_player),
                                            Reconstructed(displaced))
                    /\ swap_log' = Append(swap_log,
                          [bench_player |-> bench_player,
                           displaced |-> displaced,
                           idx |-> idx,
                           before |-> assigned_active,
                           pool |-> unassigned])
           ELSE UNCHANGED <<assigned_active, unassigned, swap_log>>
    /\ swap_pos' = swap_pos + 1
    /\ UNCHANGED <<roster, untouchables, pc, on_il, assigned_bench, bench_with_game,
                   il_formatted, ilVars, waiverVars, bench_shape>>

\* the bench entry of one remaining player
BenchEntry(player, unt) ==
    HtScoreOf(player) @@
    [name |-> player["name"],
     slot |-> "BN",
     rank_30day |-> Get(player, "yahoo_30day_rank", MissingRank),
     rank_14day |-> Get(player, "yahoo_14day_rank", MissingRank),
     has_game_today |-> Get(player, "has_game_today", FALSE),
     injury_status |-> Get(player, "status", "healthy"),
     is_untouchable |-> player["name"] \in DOMAIN unt,
     flag_low_rank |-> FALSE,
     positions |-> Get(player, "positions", {})]

IlEntry(p) ==
    [name |-> p["name"],
     slot |-> Get(p, "current_slot", "IL"),
     rank_30day |-> Get(p, "yahoo_30day_rank", MissingRank),
     rank_14day |-> Get(p, "yahoo_14day_rank", MissingRank),
     injury_status |-> Get(p, "status", "INJ")]

\* after the swap loop: fill bench slots with the remaining players, best
\* first, up to capacity; format the IL players; return
BenchFill ==
    /\ pc = "swap"
    /\ swap_pos > Len(bench_with_game)
    /\ LET Key(p) == _rank_sort_key(p, untouchables, FALSE)
           remaining_players == SortedBy(unassigned, Key)
           n == IF Len(remaining_players) < Len(BENCH_SLOTS)
                THEN Len(remaining_players) ELSE Len(BENCH_SLOTS)
       IN  assigned_bench' = [i \in 1..n |-> BenchEntry(remaining_players[i], untouchables)]
    /\ il_formatted' = [i \in 1..Len(on_il) |-> IlEntry(on_il[i])]
    /\ pc' = "done"
    /\ UNCHANGED <<roster, untouchables, on_il, unassigned, assigned_active,
                   bench_with_game, swap_pos, swap_log, ilVars, waiverVars, bench_shape>>

Next ==
    \/ Partition
    \/ FillStable
    \/ FillFlex
    \/ SwapStep
    \/ BenchFill

Spec == Init /\ [][Next]_vars

(***************************************************************************)
(* build_lineup on frontcourt rosters.  main.py looks the HT ranks up by   *)
(* name even for a player without a matched composite score, so a roster   *)
(* record may carry ht_rank_30d / ht_rank_14d and no ht_score.             *)
(***************************************************************************)
MaxFrontcourtRoster == 4

FrontcourtKinds ==
    << \* 1: power forward ruled out, sitting in PF, no game today
       [positions |-> {"PF"}, status |-> "O", current_slot |-> "PF",
        has_game_today |-> FALSE, yahoo_30day_rank |-> 100, yahoo_14day_rank |-> 100],
       \* 2: big man, eligible for PF and C
       [positions |-> {"PF", "C"}, status |-> "healthy", current_slot |-> "C",
        has_game_today |-> FALSE, yahoo_30day_rank |-> 10, yahoo_14day_rank |-> 10],
       \* 3: generic forward (eligible for UTIL only) with a game today
       [positions |-> {"F"}, status |-> "healthy", current_slot |-> "BN",
        has_game_today |-> TRUE, yahoo_30day_rank |-> 50, yahoo_14day_rank |-> 50],
       \* 4: generic forward, no game today, HT ranks but no composite score
       [positions |-> {"F"}, status |-> "healthy", current_slot |-> "UTIL",
        has_game_today |-> FALSE, yahoo_30day_rank |-> 200, yahoo_14day_rank |-> 200,
        ht_rank_30d |-> 10, ht_rank_14d |-> 10],
       \* 5: no eligible positions
       [positions |-> {}, status |-> "healthy", current_slot |-> "BN",
        has_game_today |-> FALSE, yahoo_30day_rank |-> 100, yahoo_14day_rank |-> 100] >>

UntouchableFrontcourtKinds == {2}

FrontcourtRosterOf(f) ==
    [i \in 1..Len(f) |-> ("name" :> Names[i]) @@ FrontcourtKinds[f[i]]]

FrontcourtUntouchablesOf(f) ==
    [n \in {Names[i] : i \in {j \in 1..Len(f) : f[j] \in UntouchableFrontcourtKinds}}
        |-> UntouchableWeight]

FrontcourtInit ==
    /\ \E f \in UNION {[1..n -> 1..Len(FrontcourtKinds)] : n \in 0..MaxFrontcourtRoster} :
          /\ roster = FrontcourtRosterOf(f)
          /\ untouchables = FrontcourtUntouchablesOf(f)
    /\ pc = "partition"
    /\ Blank

SpecFrontcourt == FrontcourtInit /\ [][Next]_vars

(***************************************************************************)
(* build_lineup on sparse records: every field but the name may be absent, *)
(* and the code falls back on its defaults.                                *)
(***************************************************************************)
MaxSparseRoster == 3

SparseKinds ==
    << \* 1: a name and nothing else
       <<>>,
       \* 2: center without ranks, status or slot
       [positions |-> {"C"}],
       \* 3: guard with a 30-day rank and a game today, no status
       [positions |-> {"PG"}, yahoo_30day_rank |-> 70, has_game_today |-> TRUE],
       \* 4: generic forward (eligible for UTIL only), nothing else known
       [positions |-> {"F"}],
       \* 5: generic forward with a game today, questionable
       [positions |-> {"F"}, has_game_today |-> TRUE, status |-> "Q"],
       \* 6: player in an IL slot, nothing else known
       [current_slot |-> "IL"] >>

SparseRosterOf(f) ==
    [i \in 1..Len(f) |-> ("name" :> Names[i]) @@ SparseKinds[f[i]]]

SparseInit ==
    /\ \E f \in UNION {[1..n -> 1..Len(SparseKinds)] : n \in 0..MaxSparseRoster} :
          roster = SparseRosterOf(f)
    /\ untouchables = <<>>
    /\ pc = "partition"
    /\ Blank

SpecSparse == SparseInit /\ [][Next]_vars

(***************************************************************************)
(* build_lineup on rosters that compete for the same slots: scored and     *)
(* unscored players, untouchable or not, at the extremes of score and rank *)
(***************************************************************************)
MaxRankedRoster == 3

RankedKinds ==
    << \* 1: untouchable guard, unscored, unranked
       [positions |-> {"PG"}, status |-> "healthy", current_slot |-> "BN",
        has_game_today |-> FALSE, yahoo_30day_rank |-> 999, yahoo_14day_rank |-> 999],
       \* 2: guard with the highest composite score
       [positions |-> {"PG"}, status |-> "healthy", current_slot |-> "PG",
        has_game_today |-> FALSE, yahoo_30day_rank |-> 1, yahoo_14day_rank |-> 1,
        ht_score |-> 999, ht_rank_30d |-> 1, ht_rank_14d |-> 1],
       \* 3: unscored guard, better over 30 days than over 14
       [positions |-> {"PG"}, status |-> "O", current_slot |-> "G",
        has_game_today |-> TRUE, yahoo_30day_rank |-> 1, yahoo_14day_rank |-> 40],
       \* 4: untouchable guard with the lowest composite score
       [positions |-> {"PG"}, status |-> "healthy", current_slot |-> "UTIL",
        has_game_today |-> FALSE, yahoo_30day_rank |-> 500, yahoo_14day_rank |-> 500,
        ht_score |-> -999, ht_rank_30d |-> 400, ht_rank_14d |-> 400],
       \* 5: unscored guard, better over 14 days than over 30
       [positions |-> {"PG"}, status |-> "healthy", current_slot |-> "BN",
        has_game_today |-> FALSE, yahoo_30day_rank |-> 40, yahoo_14day_rank |-> 1],
       \* 6: generic guard (eligible for UTIL only), no game today
       [positions |-> {"G"}, status |-> "healthy", current_slot |-> "UTIL",
        has_game_today |-> FALSE, yahoo_30day_rank |-> 100, yahoo_14day_rank |-> 100],
       \* 7: generic guard with a game today, worse ranks
       [positions |-> {"G"}, status |-> "healthy", current_slot |-> "BN",
        has_game_today |-> TRUE, yahoo_30day_rank |-> 300, yahoo_14day_rank |-> 300] >>

UntouchableRankedKinds == {1, 4}

RankedRosterOf(f) ==
    [i \in 1..Len(f) |-> ("name" :> Names[i]) @@ RankedKinds[f[i]]]

RankedUntouchablesOf(f) ==
    [n \in {Names[i] : i \in {j \in 1..Len(f) : f[j] \in UntouchableRankedKinds}}
        |-> UntouchableWeight]

RankedInit ==
    /\ \E f \in UNION {[1..n -> 1..Len(RankedKinds)] : n \in 0..MaxRankedRoster} :
          /\ roster = RankedRosterOf(f)
          /\ untouchables = RankedUntouchablesOf(f)
    /\ pc = "partition"
    /\ Blank

SpecRanked == RankedInit /\ [][Next]_vars

(***************************************************************************)
(* build_lineup on game days: five point guards outnumber the four slots   *)
(* open to them (PG, G and two UTIL), so that a benched guard with a game  *)
(* can reach the stable PG slot.                                           *)
(***************************************************************************)
MaxGameDayRoster == 5

GameDayKinds ==
    << \* 1: well-ranked guard without a game today
       [positions |-> {"PG"}, status |-> "healthy", current_slot |-> "PG",
        has_game_today |-> FALSE, yahoo_30day_rank |-> 20, yahoo_14day_rank |-> 20],
       \* 2: guard with a game today, 30-day rank above the threshold
       [positions |-> {"PG"}, status |-> "healthy", current_slot |-> "BN",
        has_game_today |-> TRUE, yahoo_30day_rank |-> 70, yahoo_14day_rank |-> 70],
       \* 3: guard ruled out, game today, 30-day rank at the threshold
       [positions |-> {"PG"}, status |-> "O", current_slot |-> "G",
        has_game_today |-> TRUE, yahoo_30day_rank |-> 60, yahoo_14day_rank |-> 90],
       \* 4: day-to-day guard without a game today and without a 30-day rank
       [positions |-> {"PG"}, status |-> "DTD", current_slot |-> "UTIL",
        has_game_today |-> FALSE, yahoo_14day_rank |-> 10] >>

GameDayRosterOf(f) ==
    [i \in 1..Len(f) |-> ("name" :> Names[i]) @@ GameDayKinds[f[i]]]

GameDayInit ==
    /\ \E f \in UNION {[1..n -> 1..Len(GameDayKinds)] : n \in 0..MaxGameDayRoster} :
          roster = GameDayRosterOf(f)
    /\ untouchables = <<>>
    /\ pc = "partition"
    /\ Blank

SpecGameDay == GameDayInit /\ [][Next]_vars

(***************************************************************************)
(* build_lineup on rosters of generic guards, who fit the two UTIL slots   *)
(* only: with four of them two are left for the swap pass.                 *)
(***************************************************************************)
MaxUtilRoster == 4

UtilKinds ==
    << \* 1: no game today
       [positions |-> {"G"}, status |-> "healthy", current_slot |-> "UTIL",
        has_game_today |-> FALSE, yahoo_30day_rank |-> 30, yahoo_14day_rank |-> 30],
       \* 2: game today
       [positions |-> {"G"}, status |-> "healthy", current_slot |-> "BN",
        has_game_today |-> TRUE, yahoo_30day_rank |-> 80, yahoo_14day_rank |-> 80],
       \* 3: game today, better ranks
       [positions |-> {"G"}, status |-> "Q", current_slot |-> "BN",
        has_game_today |-> TRUE, yahoo_30day_rank |-> 70, yahoo_14day_rank |-> 70],
       \* 4: not active, with a game today
       [positions |-> {"G"}, status |-> "NA", current_slot |-> "BN",
        has_game_today |-> TRUE, yahoo_30day_rank |-> 90, yahoo_14day_rank |-> 90] >>

UtilRosterOf(f) ==
    [i \in 1..Len(f) |-> ("name" :> Names[i]) @@ UtilKinds[f[i]]]

UtilInit ==
    /\ \E f \in UNION {[1..n -> 1..Len(UtilKinds)] : n \in 0..MaxUtilRoster} :
          roster = UtilRosterOf(f)
    /\ untouchables = <<>>
    /\ pc = "partition"
    /\ Blank

SpecUtil == UtilInit /\ [][Next]_vars

(***************************************************************************)
(* il_manager.py: check_il_flags, called as main.py calls it (no bench)    *)
(***************************************************************************)
SHOULD_BE_ON_IL == {"INJ", "O"}

\* mutant: the empty status is not healthy
HEALTHY_STATUSES_NoEmpty == {"healthy"}

HEALTHY_STATUSES == {"healthy", ""}

IL_SLOTS == {"IL", "IL+"}

MAX_IL_SLOTS == 3

\* (status, current_slot) of the players check_il_flags is run on
IlKinds ==
    << [status |-> "healthy", current_slot |-> "PF"],
       [status |-> "O",       current_slot |-> "PF"],
       [status |-> "INJ",     current_slot |-> "BN"],
       [status |-> "Q",       current_slot |-> "BN"],
       [status |-> "DTD",     current_slot |-> "UTIL"],
       [status |-> "",        current_slot |-> "BN"],
       [status |-> "healthy", current_slot |-> "IL"],
       [status |-> "",        current_slot |-> "IL+"],
       [status |-> "O",       current_slot |-> "IL"],
       [status |-> "INJ",     current_slot |-> "IL+"],
       [status |-> "Q",       current_slot |-> "IL"],
       [status |-> "healthy", current_slot |-> "IL+"] >>

IlRosterOf(f) ==
    [i \in 1..Len(f) |-> ("name" :> Names[i]) @@ IlKinds[f[i]]]

IlKindChoices(maxLen) ==
    UNION {[1..n -> 1..Len(IlKinds)] : n \in 0..maxLen}

IlInit ==
    /\ \E f \in IlKindChoices(MaxIlRoster) : roster = IlRosterOf(f)
    /\ untouchables = <<>>
    /\ pc = "il_check"
    /\ Blank

\* Count currently occupied IL slots
IlOccupied(r) ==
    Cardinality({i \in 1..Len(r) : Get(r[i], "current_slot", "") \in IL_SLOTS})

IlAvailable(r) ==
    IF MAX_IL_SLOTS - IlOccupied(r) > 0 THEN MAX_IL_SLOTS - IlOccupied(r) ELSE 0

\* mutant: the current slot is not looked at
IsMoveCase_AnySlot(player) ==
    Get(player, "status", "healthy") \in {"INJ", "O"}

\* Case 1: not on IL but with a hard injury designation
IsMoveCase(player) ==
    /\ Get(player, "status", "healthy") \in SHOULD_BE_ON_IL
    /\ Get(player, "current_slot", "BN") \notin IL_SLOTS

\* Case 2 (elif): on IL but no longer with an injury designation
IsActivateCase(player) ==
    /\ ~IsMoveCase(player)
    /\ Get(player, "current_slot", "BN") \in IL_SLOTS
    /\ Get(player, "status", "healthy") \in HEALTHY_STATUSES

MoveEntry(player) ==
    [name |-> Get(player, "name", "Unknown"),
     status |-> Get(player, "status", "healthy"),
     current_slot |-> Get(player, "current_slot", "BN")]

ActivateEntry(player) ==
    [name |-> Get(player, "name", "Unknown"),
     current_slot |-> Get(player, "current_slot", "BN")]

\* [f(x) for x in s]
MapSeq(s, f(_)) == [i \in 1..Len(s) |-> f(s[i])]

\* mutant: nothing is trimmed
TrimToAvailable_None(moves, il_available) == moves

\* Trim IL move suggestions to available slots
TrimToAvailable(moves, il_available) ==
    IF Len(moves) > il_available THEN SubSeq(moves, 1, il_available) ELSE moves

check_il_flags ==
    /\ pc = "il_check"
    /\ should_move_to_il' =
          TrimToAvailable(MapSeq(Filter(roster, IsMoveCase), MoveEntry),
                          IlAvailable(roster))
    /\ should_activate_from_il' = MapSeq(Filter(roster, IsActivateCase), ActivateEntry)
    /\ pc' = "il_done"
    /\ UNCHANGED <<roster, untouchables, lineupVars, waiverVars, bench_shape>>

NextIl == check_il_flags

SpecIl == IlInit /\ [][NextIl]_vars

(***************************************************************************)
(* il_manager.py: recommend_drop_for_activation, and check_il_flags called *)
(* with bench data.  Scores are counted in thousandths; None is <<>>.      *)
(***************************************************************************)
MaxDropBench == 3

MaxDropRoster == 2

\* x or y or 0 on numbers-or-None: the first truthy value
FirstTruthy(vals) ==
    LET truthy == SelectSeq(vals, LAMBDA v : v # <<>> /\ v # <<0>>)
    IN  IF truthy = <<>> THEN 0 ELSE truthy[1][1]

\* dict.get(key) -> <<>> for None, <<value>> otherwise
GetOpt(d, k) == IF k \in DOMAIN d THEN <<d[k]>> ELSE <<>>

\* tuple comparison of two-component sort keys
TupleLess(x, y) == x[1] < y[1] \/ (x[1] = y[1] /\ x[2] < y[2])

\* mutant: untouchables stay in the candidate list
IsDropCandidate_All(p, unt) == TRUE

\* "Never drop untouchables"
IsDropCandidate(p, unt) == Get(p, "name", "Unknown") \notin DOMAIN unt

\* the tuple (sort_key, p, ht, rank_14, pos_overlap) of one bench player
DropCandidate(p, returning_player) ==
    LET ht == GetOpt(p, "ht_score")
        ht_sort == IF ht # <<>> THEN ht[1] ELSE -999000
        rank_14 == FirstTruthy(<<GetOpt(p, "ht_rank_14d"), GetOpt(p, "rank_14day")>>)
        pos_overlap == Get(returning_player, "eligible_positions", {})
                          \cap Get(p, "eligible_positions", {}) # {}
    IN  [sort_key |-> <<ht_sort - (IF pos_overlap THEN 500 ELSE 0), -rank_14>>,
         p |-> p, ht |-> ht, rank_14 |-> rank_14, pos_overlap |-> pos_overlap]

\* candidates.sort(key=lambda x: x[0]): ascending and stable
SortCandidates(c) ==
    LET pos == [i \in 1..Len(c) |->
                   1 + Cardinality({j \in 1..Len(c) :
                         \/ TupleLess(c[j].sort_key, c[i].sort_key)
                         \/ (c[j].sort_key = c[i].sort_key /\ j < i)})]
    IN  [q \in 1..Len(c) |-> c[CHOOSE i \in 1..Len(c) : pos[i] = q]]

\* the parts of the reason text, without the formatted numbers
ReasonParts(ht, rank_14, pos_overlap) ==
    (IF ht = <<>> THEN <<"no HT score">> ELSE <<"HT">>)
    \o (IF rank_14 # 0 THEN <<"rank14">> ELSE <<>>)
    \o (IF pos_overlap THEN <<"position overlap">> ELSE <<>>)

\* <<>> for None, else <<drop candidate info>>
recommend_drop_for_activation(returning_player, bench, unt) ==
    IF bench = <<>> THEN <<>>
    ELSE LET kept == SelectSeq(bench, LAMBDA p : IsDropCandidate(p, unt))
             candidates == SortCandidates(
                 [i \in 1..Len(kept) |-> DropCandidate(kept[i], returning_player)])
         IN  IF candidates = <<>> THEN <<>>
             ELSE LET best == candidates[1]
                  IN  << [name |-> Get(best.p, "name", "Unknown"),
                          positions |-> Get(best.p, "eligible_positions", {}),
                          ht_score |-> best.ht,
                          rank_14day |-> best.rank_14,
                          reason |-> ReasonParts(best.ht, best.rank_14,
                                                 best.pos_overlap)] >>

\* bench players handed to the advisor
DropKinds ==
    << \* 1: scored forward
       [eligible_positions |-> {"SF", "PF"}, ht_score |-> 2100, rank_14day |-> 80],
       \* 2: better-scored guard with an HT 14-day rank
       [eligible_positions |-> {"PG", "SG"}, ht_score |-> 2500, ht_rank_14d |-> 40],
       \* 3: unscored center
       [eligible_positions |-> {"C"}],
       \* 4: unscored, unranked-late player named in the untouchables mapping
       [rank_14day |-> 120],
       \* 5: bench entry as build_lineup shapes it (positions, rank_14day)
       [positions |-> {"PG"}, ht_score |-> 2100, rank_14day |-> 90],
       \* 6: another bench entry of that shape, a lower-scored forward
       [positions |-> {"SF"}, ht_score |-> 1800, rank_14day |-> 50] >>

UntouchableDropKinds == {4}

BenchNames == <<"B1", "B2", "B3", "B4", "B5">>

DropBenchOf(f) ==
    [i \in 1..Len(f) |-> ("name" :> BenchNames[i]) @@ DropKinds[f[i]]]

DropUntouchablesOf(f) ==
    [n \in {BenchNames[i] : i \in {j \in 1..Len(f) : f[j] \in UntouchableDropKinds}}
        |-> UntouchableWeight]

\* roster players check_il_flags looks at when bench data is supplied
AdvisorKinds ==
    << [status |-> "healthy", current_slot |-> "IL", eligible_positions |-> {"PG"}],
       [status |-> "",        current_slot |-> "IL+", eligible_positions |-> {"SF"},
        ht_score |-> 5000],
       [status |-> "INJ",     current_slot |-> "IL"],
       [status |-> "O",       current_slot |-> "BN"],
       \* roster record as get_my_roster shapes it (positions)
       [status |-> "healthy", current_slot |-> "IL+", positions |-> {"PG"}] >>

AdvisorRosterOf(f) ==
    [i \in 1..Len(f) |-> ("name" :> Names[i]) @@ AdvisorKinds[f[i]]]

AdvisorInit ==
    /\ \E f \in UNION {[1..n -> 1..Len(AdvisorKinds)] : n \in 0..MaxDropRoster} :
          roster = AdvisorRosterOf(f)
    /\ \E g \in UNION {[1..n -> 1..Len(DropKinds)] : n \in 0..MaxDropBench} :
          /\ assigned_bench = DropBenchOf(g)
          /\ untouchables = DropUntouchablesOf(g)
    /\ pc = "advisor_check"
    /\ on_il = <<>>
    /\ unassigned = <<>>
    /\ assigned_active = <<>>
    /\ bench_with_game = <<>>
    /\ swap_pos = 1
    /\ swap_log = <<>>
    /\ il_formatted = <<>>
    /\ should_move_to_il = <<>>
    /\ should_activate_from_il = <<>>
    /\ free_agents = <<>>
    /\ opportunities = <<>>
    /\ waiver_active = <<>>
    /\ waiver_bench = <<>>
    /\ bench_shape = <<>>

\* the activation entry when bench is not None
ActivateEntryWithDrop(player, bench, unt) ==
    [name |-> Get(player, "name", "Unknown"),
     current_slot |-> Get(player, "current_slot", "BN"),
     returning_positions |-> Get(player, "eligible_positions", {}),
     returning_ht_score |-> GetOpt(player, "ht_score"),
     drop_candidate |-> recommend_drop_for_activation(player, bench, unt)]

\* check_il_flags(roster, bench=bench, untouchables=untouchables)
check_il_flags_bench ==
    /\ pc = "advisor_check"
    /\ should_move_to_il' =
          TrimToAvailable(MapSeq(Filter(roster, IsMoveCase), MoveEntry),
                          IlAvailable(roster))
    /\ LET act == Filter(roster, IsActivateCase)
       IN  should_activate_from_il' =
              [i \in 1..Len(act) |->
                  ActivateEntryWithDrop(act[i], assigned_bench, untouchables)]
    /\ pc' = "advisor_done"
    /\ UNCHANGED <<roster, untouchables, lineupVars, waiverVars, bench_shape>>

NextAdvisor == check_il_flags_bench

SpecAdvisor == AdvisorInit /\ [][NextAdvisor]_vars

(***************************************************************************)
(* waiver_scanner.py.  Composite scores and improvements are counted in    *)
(* thousandths (a rank difference of 1 is 1000), minutes per game in       *)
(* tenths.                                                                 *)
(***************************************************************************)
MaxFreeAgents == 2

MaxIncumbents == 2

FA_MAX_RANK_30 == 96

\* 28.0 minutes, in tenths
FA_MIN_MPG == 280

FA_MIN_GAMES_30 == 5

FA_MAX_RANK_14 == 96

DISQUALIFY_STATUSES == {"INJ", "O", "NA", "SUSP", "IL"}

WAIVER_SLOT_ELIGIBILITY ==
    [s \in DOMAIN SLOT_ELIGIBILITY \cup {"BN"} |->
        IF s = "BN" THEN AllPositions ELSE SLOT_ELIGIBILITY[s]]

\* mutant: the floors also reject a value of zero
BelowFloor_Zero(value, floor) == value < floor

\* value > 0 and value < floor: zero means unknown
BelowFloor(value, floor) == value > 0 /\ value < floor

\* mutant: the status is not looked at
_fa_qualifies_active_AnyStatus(fa) ==
    /\ Get(fa, "yahoo_30day_rank", MissingRank) <= FA_MAX_RANK_30
    /\ ~BelowFloor(Get(fa, "mpg", 0), FA_MIN_MPG)
    /\ ~BelowFloor(Get(fa, "games_last_30", 0), FA_MIN_GAMES_30)

_fa_qualifies_active(fa) ==
    /\ Get(fa, "status", "healthy") \notin DISQUALIFY_STATUSES
    /\ Get(fa, "yahoo_30day_rank", MissingRank) <= FA_MAX_RANK_30
    /\ ~BelowFloor(Get(fa, "mpg", 0), FA_MIN_MPG)
    /\ ~BelowFloor(Get(fa, "games_last_30", 0), FA_MIN_GAMES_30)

_fa_qualifies_bench(fa) ==
    /\ Get(fa, "status", "healthy") \notin DISQUALIFY_STATUSES
    /\ Get(fa, "yahoo_14day_rank", MissingRank) <= FA_MAX_RANK_14
    /\ ~BelowFloor(Get(fa, "mpg", 0), FA_MIN_MPG)
    /\ ~BelowFloor(Get(fa, "games_last_30", 0), FA_MIN_GAMES_30)

_shares_slot_eligibility(fa_positions, slot) ==
    LET slot_accepts == IF slot \in DOMAIN WAIVER_SLOT_ELIGIBILITY
                        THEN WAIVER_SLOT_ELIGIBILITY[slot] ELSE {}
    IN  fa_positions \cap slot_accepts # {}

\* "C", "F", "G", or "" for None
_bench_category(positions) ==
    IF "C" \in positions THEN "C"
    ELSE IF positions \cap {"SF", "PF", "F"} # {} THEN "F"
    ELSE IF positions \cap {"PG", "SG", "G"} # {} THEN "G"
    ELSE ""

\* round(x, 2) on thousandths: the nearest hundredth, an exact half going
\* to the even hundredth
Round2(x) ==
    LET q == x \div 10
        r == x % 10
    IN  IF r < 5 THEN 10 * q
        ELSE IF r > 5 THEN 10 * (q + 1)
        ELSE IF q % 2 = 0 THEN 10 * q ELSE 10 * (q + 1)

\* mutant: a non-positive score does not stop the rank comparison
ActiveImprovement_NoGuard(fa, active_player) ==
    LET fa_bm == GetOpt(fa, "bm_score")
        current_bm == GetOpt(active_player, "bm_score")
    IN  IF fa_bm # <<>> /\ current_bm # <<>> THEN <<fa_bm[1] - current_bm[1]>>
        ELSE <<1000 * (Get(active_player, "rank_30day", MissingRank)
                       - Get(fa, "yahoo_30day_rank", MissingRank))>>

\* <<>> when the pairing is skipped, else <<score_improvement>>
ActiveImprovement(fa, active_player) ==
    LET fa_bm == GetOpt(fa, "bm_score")
        current_bm == GetOpt(active_player, "bm_score")
        current_rank == Get(active_player, "rank_30day", MissingRank)
        fa_rank_30 == Get(fa, "yahoo_30day_rank", MissingRank)
    IN  IF fa_bm # <<>> /\ current_bm # <<>> THEN <<fa_bm[1] - current_bm[1]>>
        ELSE IF fa_bm # <<>> /\ fa_bm[1] <= 0 THEN <<>>
        ELSE <<1000 * (current_rank - fa_rank_30)>>

\* the opportunity of one (free agent, active player) pairing: <<>> or <<opp>>
ActiveOpportunity(fa, active_player, unt) ==
    LET slot == Get(active_player, "slot", "")
        imp == ActiveImprovement(fa, active_player)
    IN  IF ~_shares_slot_eligibility(Get(fa, "positions", {}), slot) THEN <<>>
        ELSE IF imp = <<>> THEN <<>>
        ELSE IF imp[1] <= 0 THEN <<>>
        ELSE << (IF HasKey(fa, "bm_score")
                 THEN ("fa_bm_score" :> fa["bm_score"]) ELSE <<>>) @@
                [fa_name |-> fa["name"],
                 fa_positions |-> Get(fa, "positions", {}),
                 fa_30day_rank |-> Get(fa, "yahoo_30day_rank", MissingRank),
                 fa_mpg |-> Get(fa, "mpg", 0),
                 fa_percent_owned |-> Get(fa, "percent_owned", 0),
                 replace_player_name |-> active_player["name"],
                 replace_player_rank |-> Get(active_player, "rank_30day", MissingRank),
                 replace_slot |-> slot,
                 rank_improvement |-> Round2(imp[1]),
                 is_untouchable_replace |-> active_player["name"] \in DOMAIN unt] >>

\* fa_weekly: <<>> for None
FaWeekly(fa) ==
    LET fa_bm == GetOpt(fa, "bm_score")
        fa_games == Get(fa, "games_remaining", 0)
        fa_weekly == GetOpt(fa, "bm_weekly_value")
    IN  IF fa_weekly = <<>> /\ fa_bm # <<>> /\ fa_games # 0
        THEN <<fa_bm[1] * fa_games>> ELSE fa_weekly

BenchImprovement(fa, bench_player) ==
    LET fa_bm == GetOpt(fa, "bm_score")
        fa_weekly == FaWeekly(fa)
        bench_bm == GetOpt(bench_player, "bm_score")
        bench_games == Get(bench_player, "games_remaining", 0)
    IN  IF fa_weekly # <<>> /\ bench_bm # <<>>
        THEN <<fa_weekly[1] - (IF bench_games # 0 THEN bench_bm[1] * bench_games ELSE 0)>>
        ELSE IF fa_bm # <<>> /\ fa_bm[1] <= 0 THEN <<>>
        ELSE <<1000 * (Get(bench_player, "rank_14day", MissingRank)
                       - Get(fa, "yahoo_14day_rank", MissingRank))>>

\* shared position, or the same bench category
BenchCompatible(fa, bench_player) ==
    LET fa_positions == Get(fa, "positions", {})
        bench_positions == Get(bench_player, "positions", {})
    IN  \/ fa_positions \cap bench_positions # {}
        \/ _bench_category(fa_positions) = _bench_category(bench_positions)

BenchOpportunity(fa, bench_player, unt) ==
    LET imp == BenchImprovement(fa, bench_player)
        fa_bench_cat == _bench_category(Get(fa, "positions", {}))
        fa_games == Get(fa, "games_remaining", 0)
        fa_weekly == FaWeekly(fa)
    IN  IF ~BenchCompatible(fa, bench_player) THEN <<>>
        ELSE IF imp = <<>> THEN <<>>
        ELSE IF imp[1] <= 0 THEN <<>>
        ELSE << (IF HasKey(fa, "bm_score")
                 THEN ("fa_bm_score" :> fa["bm_score"]) ELSE <<>>) @@
                (IF fa_games # 0 THEN ("fa_games_remaining" :> fa_games) ELSE <<>>) @@
                (IF fa_weekly # <<>>
                 THEN ("fa_weekly_value" :> Round2(fa_weekly[1])) ELSE <<>>) @@
                [fa_name |-> fa["name"],
                 fa_positions |-> Get(fa, "positions", {}),
                 fa_14day_rank |-> Get(fa, "yahoo_14day_rank", MissingRank),
                 fa_mpg |-> Get(fa, "mpg", 0),
                 fa_percent_owned |-> Get(fa, "percent_owned", 0),
                 replace_player_name |-> bench_player["name"],
                 replace_player_rank |-> Get(bench_player, "rank_14day", MissingRank),
                 position_fit |-> IF fa_bench_cat # "" THEN fa_bench_cat ELSE "?",
                 rank_improvement |-> Round2(imp[1]),
                 is_untouchable_replace |-> bench_player["name"] \in DOMAIN unt] >>

\* concatenation of a list of lists
RECURSIVE Flatten(_)
Flatten(ss) == IF ss = <<>> THEN <<>> ELSE Head(ss) \o Flatten(Tail(ss))

\* mutant: the last opportunity of a free agent is kept
DedupBest_Last(opps, i) ==
    CHOOSE k \in 1..Len(opps) :
        /\ opps[k]["fa_name"] = opps[i]["fa_name"]
        /\ \A j \in (k + 1)..Len(opps) : opps[j]["fa_name"] # opps[i]["fa_name"]

\* the entry seen_fa ends with for the free agent of opps[i]: the first of
\* its opportunities that no other one exceeds
DedupBest(opps, i) ==
    CHOOSE k \in 1..Len(opps) :
        /\ opps[k]["fa_name"] = opps[i]["fa_name"]
        /\ \A j \in 1..Len(opps) :
              opps[j]["fa_name"] = opps[i]["fa_name"] =>
                  /\ opps[j]["rank_improvement"] <= opps[k]["rank_improvement"]
                  /\ (j < k => opps[j]["rank_improvement"] < opps[k]["rank_improvement"])

\* seen_fa.values(): one entry per free agent, in order of first appearance
Deduplicate(opps) ==
    LET firsts == SelectSeq([i \in 1..Len(opps) |-> i],
                      LAMBDA i : \A j \in 1..(i - 1) :
                                    opps[j]["fa_name"] # opps[i]["fa_name"])
    IN  [n \in 1..Len(firsts) |-> opps[DedupBest(opps, firsts[n])]]

\* mutant: the deduplicated list is returned as it is
SortByImprovement_Unsorted(opps) == opps

\* sorted(..., key=lambda x: -x["rank_improvement"])
SortByImprovement(opps) ==
    LET Key(o) == -o["rank_improvement"]
    IN  SortedBy(opps, Key)

\* the opportunities list of scan_active_upgrades, free agent by free agent
ActiveOpportunities(fas, active_lineup, unt) ==
    LET qualified_fas == SelectSeq(fas, _fa_qualifies_active)
    IN  Flatten([i \in 1..Len(qualified_fas) |->
            Flatten([j \in 1..Len(active_lineup) |->
                ActiveOpportunity(qualified_fas[i], active_lineup[j], unt)])])

\* the opportunities list of scan_bench_upgrades
BenchOpportunities(fas, bench, unt) ==
    LET qualified_fas == SelectSeq(fas, _fa_qualifies_bench)
    IN  Flatten([i \in 1..Len(qualified_fas) |->
            Flatten([j \in 1..Len(bench) |->
                BenchOpportunity(qualified_fas[i], bench[j], unt)])])

\* free agents as get_free_agents and main.py hand them over, with the
\* composite score of the scanner's own examples
FreeAgentKinds ==
    << \* 1: unscored guard inside every threshold
       [positions |-> {"PG"}, status |-> "healthy", yahoo_30day_rank |-> 30,
        yahoo_14day_rank |-> 35, mpg |-> 300, games_last_30 |-> 10],
       \* 2: scored guard, minutes and games unknown (zero)
       [positions |-> {"PG", "SG"}, status |-> "healthy", yahoo_30day_rank |-> 50,
        yahoo_14day_rank |-> 50, mpg |-> 0, games_last_30 |-> 0,
        bm_score |-> 1502, games_remaining |-> 2],
       \* 3: center with a negative score and a top rank, minutes and games absent
       [positions |-> {"C"}, status |-> "healthy", yahoo_30day_rank |-> 5,
        yahoo_14day_rank |-> 5, bm_score |-> -200, games_remaining |-> 3],
       \* 4: suspended guard with a top rank
       [positions |-> {"PG"}, status |-> "SUSP", yahoo_30day_rank |-> 1,
        yahoo_14day_rank |-> 1, mpg |-> 350, games_last_30 |-> 12],
       \* 5: forward just outside the 30-day ceiling, just inside the 14-day one
       [positions |-> {"SF"}, status |-> "healthy", yahoo_30day_rank |-> 97,
        yahoo_14day_rank |-> 96, mpg |-> 350, games_last_30 |-> 20],
       \* 6: guard just under the minutes floor
       [positions |-> {"PG"}, status |-> "healthy", yahoo_30day_rank |-> 10,
        yahoo_14day_rank |-> 10, mpg |-> 279, games_last_30 |-> 10],
       \* 7: guard just under the games floor
       [positions |-> {"PG"}, status |-> "healthy", yahoo_30day_rank |-> 10,
        yahoo_14day_rank |-> 10, mpg |-> 300, games_last_30 |-> 4],
       \* 8: guard without ranks
       [positions |-> {"PG"}, status |-> "healthy", mpg |-> 300,
        games_last_30 |-> 10] >>

FreeAgentNames == <<"FA1", "FA2", "FA3", "FA4">>

FreeAgentsOf(f) ==
    [i \in 1..Len(f) |-> ("name" :> FreeAgentNames[i]) @@ FreeAgentKinds[f[i]]]

\* the fields of active entries the scanner reads
WaiverActiveKinds ==
    << [slot |-> "PG",   rank_30day |-> 60, bm_score |-> 1500],
       [slot |-> "UTIL", rank_30day |-> 80],
       [slot |-> "G",    rank_30day |-> 90],
       [slot |-> "UTIL", rank_30day |-> 45, bm_score |-> 1498] >>

\* the fields of bench entries the scanner reads
WaiverBenchKinds ==
    << [positions |-> {"PG"}, rank_14day |-> 70],
       [positions |-> {"SG"}, rank_14day |-> 55, bm_score |-> 1500,
        games_remaining |-> 2],
       [positions |-> {"C", "PG"}],
       [positions |-> {"PF"}, rank_14day |-> 100, bm_score |-> 1000] >>

\* the third kind of either list is named in the untouchables mapping
UntouchableWaiverKinds == {3}

IncumbentsOf(kinds, f) ==
    [i \in 1..Len(f) |-> ("name" :> Names[i]) @@ kinds[f[i]]]

WaiverUntouchablesOf(f) ==
    [n \in {Names[i] : i \in {j \in 1..Len(f) : f[j] \in UntouchableWaiverKinds}}
        |-> UntouchableWeight]

WaiverInit ==
    /\ \E f \in UNION {[1..n -> 1..Len(FreeAgentKinds)] : n \in 0..MaxFreeAgents} :
          free_agents = FreeAgentsOf(f)
    /\ \E g \in UNION {[1..n -> 1..Len(WaiverActiveKinds)] : n \in 0..MaxIncumbents} :
          /\ untouchables = WaiverUntouchablesOf(g)
          /\ \/ /\ pc = "scan_active"
                /\ assigned_active = IncumbentsOf(WaiverActiveKinds, g)
                /\ assigned_bench = <<>>
             \/ /\ pc = "scan_bench"
                /\ assigned_active = <<>>
                /\ assigned_bench = IncumbentsOf(WaiverBenchKinds, g)
    /\ roster = <<>>
    /\ on_il = <<>>
    /\ unassigned = <<>>
    /\ bench_with_game = <<>>
    /\ swap_pos = 1
    /\ swap_log = <<>>
    /\ il_formatted = <<>>
    /\ should_move_to_il = <<>>
    /\ should_activate_from_il = <<>>
    /\ opportunities = <<>>
    /\ waiver_active = <<>>
    /\ waiver_bench = <<>>
    /\ bench_shape = <<>>

scan_active_upgrades ==
    /\ pc = "scan_active"
    /\ LET opps == ActiveOpportunities(free_agents, assigned_active, untouchables)
       IN  /\ opportunities' = opps
           /\ waiver_active' = SortByImprovement(Deduplicate(opps))
    /\ pc' = "scan_done"
    /\ UNCHANGED <<roster, untouchables, lineupVars, ilVars, free_agents, waiver_bench,
                   bench_shape>>

scan_bench_upgrades ==
    /\ pc = "scan_bench"
    /\ LET opps == BenchOpportunities(free_agents, assigned_bench, untouchables)
       IN  /\ opportunities' = opps
           /\ waiver_bench' = SortByImprovement(Deduplicate(opps))
    /\ pc' = "scan_done"
    /\ UNCHANGED <<roster, untouchables, lineupVars, ilVars, free_agents, waiver_active,
                   bench_shape>>

NextWaiver ==
    \/ scan_active_upgrades
    \/ scan_bench_upgrades

SpecWaiver == WaiverInit /\ [][NextWaiver]_vars

(***************************************************************************)
(* optimizer.py: bench shape analysis                                      *)
(***************************************************************************)
MaxShapeBench == 3

TARGET_BENCH_SHAPE == [G |-> 1, F |-> 1, C |-> 1]

\* mutant: guard positions are looked at first
_classify_bench_player_GuardFirst(player) ==
    LET positions == Get(player, "positions", {})
    IN  IF positions \cap {"PG", "SG", "G"} # {} THEN "G"
        ELSE IF positions \cap {"SF", "PF", "F"} # {} THEN "F"
        ELSE IF "C" \in positions THEN "C"
        ELSE ""

\* "C", "F", "G", or "" for None
_classify_bench_player(player) ==
    LET positions == Get(player, "positions", {})
    IN  IF "C" \in positions THEN "C"
        ELSE IF positions \cap {"SF", "PF", "F"} # {} THEN "F"
        ELSE IF positions \cap {"PG", "SG", "G"} # {} THEN "G"
        ELSE ""

\* (actual_shape, is_target_met, description); the description is the list
\* of its parts <<category, have, want, indicator>>
BenchShape(bench) ==
    LET actual == [cat \in {"G", "F", "C"} |->
                      Cardinality({i \in 1..Len(bench) :
                                      _classify_bench_player(bench[i]) = cat})]
        met == \A k \in DOMAIN TARGET_BENCH_SHAPE :
                   Get(actual, k, 0) >= TARGET_BENCH_SHAPE[k]
        cats == <<"G", "F", "C">>
        parts == [n \in 1..3 |->
                     LET have == Get(actual, cats[n], 0)
                         want == Get(TARGET_BENCH_SHAPE, cats[n], 0)
                     IN  <<cats[n], have, want, IF have >= want THEN "OK" ELSE "NEED">>]
    IN  [actual |-> actual, met |-> met, desc |-> parts]

\* position lists of bench entries
ShapePositions ==
    << {"C"}, {"C", "PF"}, {"SF"}, {"PF", "PG"}, {"PG"}, {"G"}, {"F"}, {} >>

\* bench entries; the kind after the last position list has no positions key
ShapeBenchOf(f) ==
    [i \in 1..Len(f) |->
        IF f[i] <= Len(ShapePositions)
        THEN [name |-> BenchNames[i], slot |-> "BN", positions |-> ShapePositions[f[i]]]
        ELSE [name |-> BenchNames[i], slot |-> "BN"]]

ShapeInit ==
    /\ \E f \in UNION {[1..n -> 1..(Len(ShapePositions) + 1)] : n \in 0..MaxShapeBench} :
          assigned_bench = ShapeBenchOf(f)
    /\ pc = "shape"
    /\ roster = <<>>
    /\ untouchables = <<>>
    /\ on_il = <<>>
    /\ unassigned = <<>>
    /\ assigned_active = <<>>
    /\ bench_with_game = <<>>
    /\ swap_pos = 1
    /\ swap_log = <<>>
    /\ il_formatted = <<>>
    /\ should_move_to_il = <<>>
    /\ should_activate_from_il = <<>>
    /\ free_agents = <<>>
    /\ opportunities = <<>>
    /\ waiver_active = <<>>
    /\ waiver_bench = <<>>
    /\ bench_shape = <<>>

check_bench_shape ==
    /\ pc = "shape"
    /\ bench_shape' = <<BenchShape(assigned_bench)>>
    /\ pc' = "shape_done"
    /\ UNCHANGED <<roster, untouchables, lineupVars, ilVars, waiverVars>>

NextShape == check_bench_shape

SpecShape == ShapeInit /\ [][NextShape]_vars

(***************************************************************************)
(* Vocabulary of the properties                                            *)
(***************************************************************************)
NamesOf(s) == [i \in 1..Len(s) |-> s[i]["name"]]

NoDuplicates(s) == \A i, j \in 1..Len(s) : s[i] = s[j] => i = j

Occurrences(s, x) == Cardinality({i \in 1..Len(s) : s[i] = x})

\* the roster record of a name (names are unique)
RosterPlayer(n) == roster[CHOOSE i \in 1..Len(roster) : roster[i]["name"] = n]

NonIlRoster == SelectSeq(roster, LAMBDA p : p["current_slot"] \notin {"IL", "IL+"})

IlRoster == SelectSeq(roster, LAMBDA p : p["current_slot"] \in {"IL", "IL+"})

Capacity == Len(ACTIVE_SLOTS) + Len(BENCH_SLOTS)

\* accepted positions of an active slot, as the specification lists them
AcceptedBy(slot) ==
    CASE slot = "PG"   -> {"PG"}
      [] slot = "SG"   -> {"SG"}
      [] slot = "G"    -> {"PG", "SG"}
      [] slot = "SF"   -> {"SF"}
      [] slot = "PF"   -> {"PF"}
      [] slot = "F"    -> {"SF", "PF"}
      [] slot = "C"    -> {"C"}
      [] slot = "UTIL" -> {"PG", "SG", "SF", "PF", "C", "G", "F"}
      [] OTHER         -> {}

\* expendability tier of an active entry: 1 UTIL, 2 G/F/second C, 3 stable
Tier(entry) ==
    IF entry["slot_type"] = "stable" THEN 3
    ELSE IF entry["slot"] = "UTIL" THEN 1 ELSE 2

\* the entries a swap could have displaced: no game today and a slot open to
\* the promoted player
Displaceable(s) ==
    {j \in 1..Len(s.before) :
        /\ ~RosterPlayer(s.before[j]["name"])["has_game_today"]
        /\ s.bench_player["positions"] \cap AcceptedBy(s.before[j]["slot"]) # {}}

(***************************************************************************)
(* C1  Completeness: with at most 13 non-IL players, every non-IL player   *)
(* is in exactly one of the returned active and bench lists.               *)
(***************************************************************************)
C1_Completeness ==
    (pc = "done" /\ Len(NonIlRoster) <= Capacity) =>
        \A i \in 1..Len(NonIlRoster) :
            Occurrences(NamesOf(assigned_active) \o NamesOf(assigned_bench),
                        NonIlRoster[i]["name"]) = 1

(***************************************************************************)
(* C2  Eligibility: at every point of the run and in the result, every     *)
(* active entry holds a player whose positions meet the accepted positions *)
(* of the entry's slot.                                                    *)
(***************************************************************************)
C2_Eligibility ==
    \A i \in 1..Len(assigned_active) :
        RosterPlayer(assigned_active[i]["name"])["positions"]
            \cap AcceptedBy(assigned_active[i]["slot"]) # {}

C2_Witness ==
    /\ pc = "done"
    /\ swap_log # <<>>
    /\ \E i, j \in 1..Len(assigned_active) :
          assigned_active[i]["slot"] = "PG" /\ assigned_active[j]["slot"] = "UTIL"

(***************************************************************************)
(* C3  No player is assigned twice: no name occurs more than once in       *)
(* active, bench and on_il together; a displaced player is no longer       *)
(* active and a promoted one is not on the bench.                          *)
(***************************************************************************)
C3_NoDoubleAssignment ==
    /\ NoDuplicates(NamesOf(assigned_active) \o NamesOf(assigned_bench)
                    \o NamesOf(il_formatted))
    /\ pc = "done" =>
          \A k \in 1..Len(swap_log) :
              /\ Occurrences(NamesOf(assigned_active),
                             swap_log[k].displaced["name"]) = 0
              /\ Occurrences(NamesOf(assigned_bench),
                             swap_log[k].bench_player["name"]) = 0

\* a displaced player ended on the bench and the promoted one in the lineup
C3_Witness ==
    /\ pc = "done"
    /\ \E k \in 1..Len(swap_log) :
          /\ Occurrences(NamesOf(assigned_bench), swap_log[k].displaced["name"]) = 1
          /\ Occurrences(NamesOf(assigned_active), swap_log[k].bench_player["name"]) = 1

(***************************************************************************)
(* C4  IL pass-through: on_il holds exactly the roster players whose       *)
(* current_slot is IL or IL+, in roster order, with name, slot and status  *)
(* unchanged; none of them is in active or bench.                          *)
(***************************************************************************)
C4_IlPassThrough ==
    pc = "done" =>
        /\ Len(il_formatted) = Len(IlRoster)
        /\ \A i \in 1..Len(il_formatted) :
              /\ il_formatted[i]["name"] = IlRoster[i]["name"]
              /\ il_formatted[i]["slot"] = IlRoster[i]["current_slot"]
              /\ il_formatted[i]["injury_status"] = IlRoster[i]["status"]
              /\ Occurrences(NamesOf(assigned_active) \o NamesOf(assigned_bench),
                             IlRoster[i]["name"]) = 0

C4_Witness ==
    /\ pc = "done"
    /\ \E i, j \in 1..Len(il_formatted) :
          il_formatted[i]["slot"] = "IL" /\ il_formatted[j]["slot"] = "IL+"
    /\ assigned_active # <<>>
    /\ Len(assigned_bench) < Len(BENCH_SLOTS)

(***************************************************************************)
(* C5  Swap stability preference: a swap displaces an occupant of the most *)
(* expendable tier that holds a displaceable occupant: UTIL before         *)
(* G/F/second C, and those before any stable slot.                         *)
(***************************************************************************)
C5_SwapStability ==
    \A k \in 1..Len(swap_log) :
        \A j \in Displaceable(swap_log[k]) :
            Tier(swap_log[k].before[swap_log[k].idx]) <= Tier(swap_log[k].before[j])

\* a flex-slot occupant was displaced although a stable-slot occupant was
\* displaceable too
C5_Witness ==
    \E k \in 1..Len(swap_log) :
        /\ Tier(swap_log[k].before[swap_log[k].idx]) = 2
        /\ \E j \in Displaceable(swap_log[k]) : Tier(swap_log[k].before[j]) = 3

(***************************************************************************)
(* C6  Worst-ranked displacement within a tier: among the displaceable     *)
(* occupants of the displaced entry's slot and class, the one displaced    *)
(* has the lowest composite score or, for occupants without a score, the   *)
(* highest 30-day rank.                                                    *)
(***************************************************************************)
C6_WorstRankedDisplaced ==
    \A k \in 1..Len(swap_log) :
        LET s == swap_log[k]
            out == RosterPlayer(s.displaced["name"])
        IN  \A j \in Displaceable(s) :
                LET mate == RosterPlayer(s.before[j]["name"])
                IN  (/\ s.before[j]["slot"] = s.displaced["slot"]
                     /\ s.before[j]["slot_type"] = s.displaced["slot_type"]) =>
                        /\ (HasKey(out, "ht_score") /\ HasKey(mate, "ht_score"))
                              => out["ht_score"] <= mate["ht_score"]
                        /\ (~HasKey(out, "ht_score") /\ ~HasKey(mate, "ht_score"))
                              => out["yahoo_30day_rank"] >= mate["yahoo_30day_rank"]

(***************************************************************************)
(* C7  Swap preconditions: every swap promotes a player left unassigned by *)
(* the fill phases, with a game today, a status outside {INJ, O, NA} and   *)
(* eligibility for the vacated slot, and displaces an active player        *)
(* without a game today.                                                   *)
(***************************************************************************)
C7_SwapPreconditions ==
    \A k \in 1..Len(swap_log) :
        LET s == swap_log[k]
            promoted == RosterPlayer(s.bench_player["name"])
        IN  /\ Occurrences(NamesOf(s.pool), promoted["name"]) = 1
            /\ Occurrences(NamesOf(s.before), promoted["name"]) = 0
            /\ \A e \in 1..(k - 1) :
                  swap_log[e].displaced["name"] # promoted["name"]
            /\ promoted["has_game_today"] = TRUE
            /\ promoted["status"] \notin {"INJ", "O", "NA"}
            /\ promoted["positions"] \cap AcceptedBy(s.displaced["slot"]) # {}
            /\ RosterPlayer(s.displaced["name"])["has_game_today"] = FALSE
            /\ s.displaced = s.before[s.idx]

\* a swap into a stable slot: the promoted player took the place of a core
\* starter without a game
C7_Witness ==
    \E k \in 1..Len(swap_log) :
        /\ swap_log[k].displaced["slot_type"] = "stable"
        /\ assigned_active[swap_log[k].idx]["name"] = swap_log[k].bench_player["name"]
        /\ assigned_active[swap_log[k].idx]["has_game_today"]

(***************************************************************************)
(* Vocabulary of the IL properties                                         *)
(***************************************************************************)
HardOutOffIl(p) == p["status"] \in {"INJ", "O"} /\ p["current_slot"] \notin {"IL", "IL+"}

HealthyOnIl(p) == p["current_slot"] \in {"IL", "IL+"} /\ p["status"] \in {"healthy", ""}

\* k: the move-to-IL candidates, in roster order
MoveCandidates == SelectSeq(roster, HardOutOffIl)

\* o: the roster players already in an IL-type slot
OccupiedIl == Cardinality({i \in 1..Len(roster) : roster[i]["current_slot"] \in {"IL", "IL+"}})

FreeIl == IF 3 - OccupiedIl > 0 THEN 3 - OccupiedIl ELSE 0

Min(a, b) == IF a < b THEN a ELSE b

(***************************************************************************)
(* C8  IL capacity cap: should_move_to_il has exactly min(k, max(0, 3-o))  *)
(* entries, the first candidates in roster order.                          *)
(***************************************************************************)
C8_IlCapacityCap ==
    pc = "il_done" =>
        /\ Len(should_move_to_il) = Min(Len(MoveCandidates), FreeIl)
        /\ \A i \in 1..Len(should_move_to_il) :
              should_move_to_il[i]["name"] = MoveCandidates[i]["name"]

\* two slots occupied, more candidates than the one free slot
C8_Witness ==
    /\ pc = "il_done"
    /\ OccupiedIl = 2
    /\ Len(MoveCandidates) > 1
    /\ Len(should_move_to_il) = 1

(***************************************************************************)
(* C9  Move-to-IL rule: when the free IL capacity is not exceeded, a       *)
(* player is listed iff its status is INJ or O and its slot is not IL/IL+; *)
(* other players are never listed; an entry names the player's own status  *)
(* and slot.                                                               *)
(***************************************************************************)
C9_MoveToIlRule ==
    pc = "il_done" =>
        /\ Len(MoveCandidates) <= FreeIl =>
              \A i \in 1..Len(roster) :
                  HardOutOffIl(roster[i]) <=>
                      Occurrences(NamesOf(should_move_to_il), roster[i]["name"]) = 1
        /\ \A i \in 1..Len(should_move_to_il) :
              LET p == RosterPlayer(should_move_to_il[i]["name"])
              IN  /\ HardOutOffIl(p)
                  /\ should_move_to_il[i]["status"] = p["status"]
                  /\ should_move_to_il[i]["current_slot"] = p["current_slot"]

\* listed players next to a questionable one and one already on IL
C9_Witness ==
    /\ pc = "il_done"
    /\ Len(should_move_to_il) = 2
    /\ \E i, j \in 1..Len(roster) :
          /\ roster[i]["status"] = "Q" /\ roster[i]["current_slot"] = "BN"
          /\ roster[j]["status"] = "INJ" /\ roster[j]["current_slot"] = "IL+"

(***************************************************************************)
(* C10  Activate-from-IL rule: a player is listed iff its slot is IL/IL+   *)
(* and its status is healthy or empty, whatever the IL capacity; nobody is *)
(* in both lists.                                                          *)
(***************************************************************************)
C10_ActivateFromIlRule ==
    pc = "il_done" =>
        /\ \A i \in 1..Len(roster) :
              HealthyOnIl(roster[i]) <=>
                  Occurrences(NamesOf(should_activate_from_il), roster[i]["name"]) = 1
        /\ Len(should_activate_from_il) = Len(SelectSeq(roster, HealthyOnIl))
        /\ \A i \in 1..Len(should_activate_from_il) :
              /\ should_activate_from_il[i]["current_slot"]
                    = RosterPlayer(should_activate_from_il[i]["name"])["current_slot"]
              /\ Occurrences(NamesOf(should_move_to_il),
                             should_activate_from_il[i]["name"]) = 0

\* activations listed in full while the move suggestions were cut
C10_Witness ==
    /\ pc = "il_done"
    /\ Len(should_activate_from_il) = 2
    /\ \E i \in 1..Len(should_activate_from_il) :
          RosterPlayer(should_activate_from_il[i]["name"])["status"] = ""
    /\ Len(should_move_to_il) < Len(MoveCandidates)

(***************************************************************************)
(* C11  Untouchable protection in the IL advisor: the drop candidate       *)
(* attached to an activation entry is a bench player whose name is not in  *)
(* the untouchables mapping; with an empty bench or a bench of             *)
(* untouchables only there is no recommendation.                           *)
(***************************************************************************)
C11_AdvisorUntouchable ==
    pc = "advisor_done" =>
        \A i \in 1..Len(should_activate_from_il) :
            LET drop == should_activate_from_il[i]["drop_candidate"]
                free == {k \in 1..Len(assigned_bench) :
                            assigned_bench[k]["name"] \notin DOMAIN untouchables}
            IN  /\ drop # <<>> =>
                      /\ drop[1]["name"] \notin DOMAIN untouchables
                      /\ \E k \in free : assigned_bench[k]["name"] = drop[1]["name"]
                /\ free = {} => drop = <<>>

\* an unscored untouchable, the most droppable by score, sits on the bench
\* and somebody else is recommended
C11_Witness ==
    /\ pc = "advisor_done"
    /\ \E k \in 1..Len(assigned_bench) :
          /\ assigned_bench[k]["name"] \in DOMAIN untouchables
          /\ "ht_score" \notin DOMAIN assigned_bench[k]
    /\ \E i \in 1..Len(should_activate_from_il) :
          /\ should_activate_from_il[i]["drop_candidate"] # <<>>
          /\ should_activate_from_il[i]["drop_candidate"][1]["ht_score"] # <<>>

(***************************************************************************)
(* Vocabulary of the waiver properties                                     *)
(***************************************************************************)
\* the list the scan returned
WaiverOutput == waiver_active \o waiver_bench

FreeAgent(n) == free_agents[CHOOSE i \in 1..Len(free_agents) : free_agents[i]["name"] = n]

Incumbent(n) ==
    LET all == assigned_active \o assigned_bench
    IN  all[CHOOSE i \in 1..Len(all) : all[i]["name"] = n]

Rank30(fa) == IF "yahoo_30day_rank" \in DOMAIN fa THEN fa["yahoo_30day_rank"] ELSE 999

Rank14(fa) == IF "yahoo_14day_rank" \in DOMAIN fa THEN fa["yahoo_14day_rank"] ELSE 999

StatusAllowed(fa) == fa["status"] \notin {"INJ", "O", "NA", "SUSP", "IL"}

\* a value is unknown when it is absent or zero
Unknown(fa, field) == field \notin DOMAIN fa \/ fa[field] = 0

\* neither floor (28.0 minutes, 5 games) is missed by a known value
PassesFloors(fa) ==
    /\ Unknown(fa, "mpg") \/ fa["mpg"] >= 280
    /\ Unknown(fa, "games_last_30") \/ fa["games_last_30"] >= 5

Reported(n) == \E i \in 1..Len(WaiverOutput) : WaiverOutput[i]["fa_name"] = n

\* an unscored incumbent that a free agent without a non-positive score
\* beats on rank, in a slot the free agent can fill
RankUpgradeActive(fa) ==
    /\ "bm_score" \in DOMAIN fa => fa["bm_score"] > 0
    /\ \E j \in 1..Len(assigned_active) :
          /\ "bm_score" \notin DOMAIN assigned_active[j]
          /\ fa["positions"] \cap AcceptedBy(assigned_active[j]["slot"]) # {}
          /\ assigned_active[j]["rank_30day"] > Rank30(fa)

RankUpgradeBench(fa) ==
    /\ "bm_score" \in DOMAIN fa => fa["bm_score"] > 0
    /\ \E j \in 1..Len(assigned_bench) :
          /\ "bm_score" \notin DOMAIN assigned_bench[j]
          /\ fa["positions"] \cap assigned_bench[j]["positions"] # {}
          /\ (IF "rank_14day" \in DOMAIN assigned_bench[j]
              THEN assigned_bench[j]["rank_14day"] ELSE 999) > Rank14(fa)

(***************************************************************************)
(* C12  Untouchable protection in the waiver scanner: the player an        *)
(* opportunity recommends to drop is never named in the untouchables       *)
(* mapping.                                                                *)
(***************************************************************************)
C12_WaiverUntouchable ==
    pc = "scan_done" =>
        \A i \in 1..Len(WaiverOutput) :
            WaiverOutput[i]["replace_player_name"] \notin DOMAIN untouchables

C14_PositiveImprovement ==
    pc = "scan_done" =>
        \A i \in 1..Len(WaiverOutput) : WaiverOutput[i]["rank_improvement"] > 0

(***************************************************************************)
(* C15  Waiver result ordering: the returned list is in non-increasing     *)
(* order of rank_improvement.                                              *)
(***************************************************************************)
C15_WaiverOrdering ==
    pc = "scan_done" =>
        \A i, j \in 1..Len(WaiverOutput) :
            i < j => WaiverOutput[i]["rank_improvement"]
                        >= WaiverOutput[j]["rank_improvement"]

\* the second free agent of the input is reported before the first
C15_Witness ==
    /\ pc = "scan_done"
    /\ Len(WaiverOutput) = 2
    /\ WaiverOutput[1]["fa_name"] = "FA2"
    /\ WaiverOutput[2]["fa_name"] = "FA1"
    /\ WaiverOutput[1]["rank_improvement"] > WaiverOutput[2]["rank_improvement"]

(***************************************************************************)
(* C16  Free-agent qualification filter: a reported free agent has an      *)
(* allowed status and a window rank of at most 96 (30-day for the active   *)
(* scan, 14-day for the bench scan, a missing rank counting as 999); a     *)
(* known positive value under the 28-minute or 5-game floor always rejects *)
(* a free agent, a zero or absent value never does.                        *)
(***************************************************************************)
C16_QualificationFilter ==
    pc = "scan_done" =>
        /\ \A i \in 1..Len(waiver_active) :
              LET fa == FreeAgent(waiver_active[i]["fa_name"])
              IN  StatusAllowed(fa) /\ Rank30(fa) <= 96
        /\ \A i \in 1..Len(waiver_bench) :
              LET fa == FreeAgent(waiver_bench[i]["fa_name"])
              IN  StatusAllowed(fa) /\ Rank14(fa) <= 96
        /\ \A i \in 1..Len(free_agents) :
              LET fa == free_agents[i]
              IN  /\ ~PassesFloors(fa) => ~Reported(fa["name"])
                  /\ (/\ PassesFloors(fa)
                      /\ StatusAllowed(fa)
                      /\ \/ Rank30(fa) <= 96 /\ RankUpgradeActive(fa)
                         \/ Rank14(fa) <= 96 /\ RankUpgradeBench(fa))
                        => Reported(fa["name"])

\* a free agent with unknown minutes and games is reported next to one that
\* a known value under the floor keeps out
C16_Witness ==
    /\ pc = "scan_done"
    /\ \E i, j \in 1..Len(free_agents) :
          /\ "mpg" \in DOMAIN free_agents[i] /\ free_agents[i]["mpg"] = 0
          /\ free_agents[i]["games_last_30"] = 0
          /\ Reported(free_agents[i]["name"])
          /\ ~PassesFloors(free_agents[j])
          /\ StatusAllowed(free_agents[j])
          /\ Rank30(free_agents[j]) <= 96
          /\ RankUpgradeActive(free_agents[j])
          /\ ~Reported(free_agents[j]["name"])

(***************************************************************************)
(* C17  A free agent whose composite score is present and not positive is  *)
(* never reported as an upgrade over an incumbent without a composite      *)
(* score.                                                                  *)
(***************************************************************************)
C17_NonPositiveScore ==
    pc = "scan_done" =>
        \A i \in 1..Len(WaiverOutput) :
            LET fa == FreeAgent(WaiverOutput[i]["fa_name"])
                inc == Incumbent(WaiverOutput[i]["replace_player_name"])
            IN  ("bm_score" \in DOMAIN fa /\ fa["bm_score"] <= 0)
                    => "bm_score" \in DOMAIN inc

\* a qualifying free agent with a negative score and the best rank meets an
\* unscored, worse-ranked incumbent in a slot it can fill, and is not reported
C17_Witness ==
    /\ pc = "scan_done"
    /\ \E i \in 1..Len(free_agents) :
          LET fa == free_agents[i]
          IN  /\ "bm_score" \in DOMAIN fa /\ fa["bm_score"] <= 0
              /\ StatusAllowed(fa) /\ PassesFloors(fa) /\ Rank30(fa) <= 96
              /\ \E j \in 1..Len(assigned_active) :
                    /\ "bm_score" \notin DOMAIN assigned_active[j]
                    /\ fa["positions"] \cap AcceptedBy(assigned_active[j]["slot"]) # {}
                    /\ assigned_active[j]["rank_30day"] > Rank30(fa)
              /\ ~Reported(fa["name"])

(***************************************************************************)
(* C18  Bench-shape check: each bench player counts in exactly one         *)
(* category, C if C is among its positions, else F if it has SF/PF/F, else *)
(* G if it has PG/SG/G, else nowhere; target-met holds iff each of the     *)
(* three counts reaches one; the summary marks a category OK exactly when  *)
(* its count reaches one and NEED otherwise.                               *)
(***************************************************************************)
PositionsOf(p) == IF "positions" \in DOMAIN p THEN p["positions"] ELSE {}

CountC == Cardinality({i \in 1..Len(assigned_bench) :
                          "C" \in PositionsOf(assigned_bench[i])})

CountF == Cardinality({i \in 1..Len(assigned_bench) :
                          /\ "C" \notin PositionsOf(assigned_bench[i])
                          /\ PositionsOf(assigned_bench[i]) \cap {"SF", "PF", "F"} # {}})

CountG == Cardinality({i \in 1..Len(assigned_bench) :
                          /\ PositionsOf(assigned_bench[i]) \cap {"C", "SF", "PF", "F"} = {}
                          /\ PositionsOf(assigned_bench[i]) \cap {"PG", "SG", "G"} # {}})

C18_BenchShape ==
    pc = "shape_done" =>
        LET r == bench_shape[1]
            expected == [G |-> CountG, F |-> CountF, C |-> CountC]
        IN  /\ r.actual = expected
            /\ r.met <=> (CountG >= 1 /\ CountF >= 1 /\ CountC >= 1)
            /\ \A cat \in {"G", "F", "C"} :
                  \E n \in 1..Len(r.desc) :
                      /\ r.desc[n][1] = cat
                      /\ r.desc[n][2] = expected[cat]
                      /\ r.desc[n][3] = 1
                      /\ r.desc[n][4] = (IF expected[cat] >= 1 THEN "OK" ELSE "NEED")
            /\ Len(r.desc) = 3

\* a bench of one center-eligible and one guard-eligible player: C 1/1 OK,
\* G 1/1 OK, F 0/1 NEED, target not met
C18_Witness ==
    /\ pc = "shape_done"
    /\ Len(assigned_bench) = 2
    /\ PositionsOf(assigned_bench[1]) = {"C", "PF"}
    /\ PositionsOf(assigned_bench[2]) = {"PG"}
    /\ bench_shape[1].actual = [G |-> 1, F |-> 0, C |-> 1]
    /\ bench_shape[1].met = FALSE
    /\ bench_shape[1].desc = << <<"G", 1, 1, "OK">>, <<"F", 0, 1, "NEED">>,
                                <<"C", 1, 1, "OK">> >>

(***************************************************************************)
(* C19  A roster of at most 13 non-IL players that contains a PF-eligible  *)
(* player (an out player sitting in PF included) gets an active entry for  *)
(* slot PF.                                                                *)
(***************************************************************************)
NonIlPlayers == {i \in 1..Len(roster) : ~IsIlPlayer(roster[i])}

HasSlotEntry(slot) ==
    \E k \in 1..Len(assigned_active) : assigned_active[k]["slot"] = slot

C19_PfFilledWhenEligible ==
    (/\ pc = "done"
     /\ Cardinality(NonIlPlayers) <= 13
     /\ \E i \in NonIlPlayers : "PF" \in PositionsOf(roster[i]))
    => HasSlotEntry("PF")

\* C19 as the fill order gives it: a non-IL player whose positions include
\* PF and none of C, PG, SG, SF (the slots filled before PF) guarantees an
\* active entry for PF, whatever the statuses on the roster
C19_PfFilledByPureForward ==
    (/\ pc = "done"
     /\ Cardinality(NonIlPlayers) <= 13
     /\ \E i \in NonIlPlayers :
           /\ "PF" \in PositionsOf(roster[i])
           /\ PositionsOf(roster[i]) \cap {"C", "PG", "SG", "SF"} = {})
    => HasSlotEntry("PF")

\* the only PF-eligible player is ruled out and sits in PF: he is the PF
\* entry, flagged injured
C19_Witness ==
    /\ pc = "done"
    /\ Cardinality({i \in NonIlPlayers : "PF" \in PositionsOf(roster[i])}) = 1
    /\ \E i \in NonIlPlayers, k \in 1..Len(assigned_active) :
          /\ roster[i]["status"] = "O"
          /\ roster[i]["current_slot"] = "PF"
          /\ assigned_active[k]["name"] = roster[i]["name"]
          /\ assigned_active[k]["slot"] = "PF"
          /\ assigned_active[k]["flag_injured"]

(***************************************************************************)
(* C20  Bench fill: the bench has at most 3 entries, all in slot BN; it    *)
(* holds the best-ranked players left unassigned after the fill and swap   *)
(* passes, best first by the selection rule evaluated on each player's     *)
(* roster record; leftover players beyond 3 are omitted.                   *)
(***************************************************************************)
\* names of the non-IL roster players without an active entry
LeftOver ==
    {roster[i]["name"] : i \in NonIlPlayers}
        \ {assigned_active[k]["name"] : k \in 1..Len(assigned_active)}

RosterRecord(n) == roster[CHOOSE i \in 1..Len(roster) : roster[i]["name"] = n]

\* composite score if present, else 30-day rank, missing rank as 999,
\* untouchables first; lower is better
SelectionKey(n) == _rank_sort_key(RosterRecord(n), untouchables, FALSE)

BenchNamesOut == {assigned_bench[k]["name"] : k \in 1..Len(assigned_bench)}

C20_BenchFill ==
    pc = "done" =>
        /\ Len(assigned_bench) <= 3
        /\ \A k \in 1..Len(assigned_bench) : assigned_bench[k]["slot"] = "BN"
        /\ BenchNamesOut \subseteq LeftOver
        /\ Cardinality(BenchNamesOut) = Len(assigned_bench)
        /\ Len(assigned_bench) =
              (IF Cardinality(LeftOver) < 3 THEN Cardinality(LeftOver) ELSE 3)
        /\ \A j, k \in 1..Len(assigned_bench) :
              j < k => SelectionKey(assigned_bench[j]["name"])
                          <= SelectionKey(assigned_bench[k]["name"])
        /\ \A n \in LeftOver \ BenchNamesOut, k \in 1..Len(assigned_bench) :
              SelectionKey(assigned_bench[k]["name"]) <= SelectionKey(n)

(***************************************************************************)
(* C21  build_lineup returns for every roster, sparse or empty: a slot     *)
(* with no eligible unassigned candidate at its turn gets no entry, every  *)
(* other slot is filled, and the active list never exceeds 10 entries.     *)
(***************************************************************************)
\* the slots of each class in filling order, with their number of places
StableTemplate == << <<"C", 1>>, <<"PG", 1>>, <<"SG", 1>>, <<"SF", 1>>, <<"PF", 1>> >>

FlexTemplate == << <<"C", 1>>, <<"G", 1>>, <<"F", 1>>, <<"UTIL", 2>> >>

EntriesOf(slot, class) ==
    {k \in 1..Len(assigned_active) :
        /\ assigned_active[k]["slot"] = slot
        /\ assigned_active[k]["slot_type"] = class}

CanFill(p, slot) == PositionsOf(p) \cap AcceptedBy(slot) # {}

\* after a fill phase over template t: a slot with a free place has no
\* eligible player left in the pool nor in a slot filled after it, and no
\* slot holds more entries than places
PhaseFilled(t, class) ==
    \A i \in 1..Len(t) :
        /\ Cardinality(EntriesOf(t[i][1], class)) <= t[i][2]
        /\ Cardinality(EntriesOf(t[i][1], class)) < t[i][2] =>
              /\ \A q \in 1..Len(unassigned) : ~CanFill(unassigned[q], t[i][1])
              /\ \A j \in (i + 1)..Len(t) : \A k \in EntriesOf(t[j][1], class) :
                    ~CanFill(assigned_active[k], t[i][1])

\* the value a result entry shows for a roster field, absent fields
\* falling back on the documented default
Shown(n, field, dflt) ==
    IF field \in DOMAIN RosterRecord(n) THEN RosterRecord(n)[field] ELSE dflt

C21_NoError ==
    /\ Len(assigned_active) <= 10
    \* the call is at a point of the function, and the swap loop within its list
    /\ pc \in {"partition", "stable", "flex", "swap", "done"}
    /\ pc = "swap" => swap_pos \in 1..(Len(bench_with_game) + 1)
    \* the returned entries are complete, absent fields defaulted
    /\ pc = "done" =>
          /\ \A k \in 1..Len(assigned_active) :
                LET e == assigned_active[k]
                IN  /\ e["rank_30day"] = Shown(e["name"], "yahoo_30day_rank", 999)
                    /\ e["rank_14day"] = Shown(e["name"], "yahoo_14day_rank", 999)
                    /\ e["injury_status"] = Shown(e["name"], "status", "healthy")
                    /\ e["positions"] = Shown(e["name"], "positions", {})
          /\ \A k \in 1..Len(assigned_bench) :
                LET e == assigned_bench[k]
                IN  /\ e["rank_30day"] = Shown(e["name"], "yahoo_30day_rank", 999)
                    /\ e["rank_14day"] = Shown(e["name"], "yahoo_14day_rank", 999)
                    /\ e["injury_status"] = Shown(e["name"], "status", "healthy")
                    /\ e["has_game_today"] = Shown(e["name"], "has_game_today", FALSE)
          /\ Len(il_formatted) = Len(on_il)
    /\ pc = "flex" => PhaseFilled(StableTemplate, "stable")
    /\ (pc = "swap" /\ swap_pos = 1) =>
          /\ PhaseFilled(FlexTemplate, "flex")
          /\ \A i \in 1..Len(StableTemplate) :
                EntriesOf(StableTemplate[i][1], "stable") = {} =>
                    \A q \in 1..Len(unassigned) :
                        ~CanFill(unassigned[q], StableTemplate[i][1])

\* a roster with a player known by name only and a center without ranks or
\* status: the center is placed with the default rank and status, the
\* guard slot stays empty, the player known by name only is benched
C21_Witness ==
    /\ pc = "done"
    /\ \E i \in 1..Len(roster) : DOMAIN roster[i] = {"name"}
    /\ \E k \in 1..Len(assigned_active) :
          /\ assigned_active[k]["slot"] = "C"
          /\ assigned_active[k]["rank_30day"] = 999
          /\ assigned_active[k]["injury_status"] = "healthy"
    /\ EntriesOf("PG", "stable") = {}
    /\ Len(assigned_bench) >= 1

(***************************************************************************)
(* C22  Untouchable precedence: whenever a fill phase fills a slot and an  *)
(* untouchable is among the unassigned candidates eligible for it, the     *)
(* player selected is untouchable, whatever the scores and ranks.          *)
(***************************************************************************)
\* the fill phases are over and no swap has been looked at yet
FillsDone == pc = "swap" /\ swap_pos = 1

\* names of the players still unassigned when the k-th entry was chosen:
\* entries are appended in the order of the choices
PoolBefore(k) ==
    {roster[i]["name"] : i \in NonIlPlayers}
        \ {assigned_active[j]["name"] : j \in 1..(k - 1)}

\* the unassigned candidates eligible for the slot of the k-th entry
CandidatesOf(k) ==
    {n \in PoolBefore(k) : CanFill(RosterRecord(n), assigned_active[k]["slot"])}

IsUntouchable(n) == n \in DOMAIN untouchables

C22_UntouchableFirst ==
    (pc = "flex" \/ FillsDone) =>
        \A k \in 1..Len(assigned_active) :
            (\E n \in CandidatesOf(k) : IsUntouchable(n))
                => IsUntouchable(assigned_active[k]["name"])

\* an unscored, unranked untouchable is taken in the flex phase ahead of a
\* candidate with composite score 999, after a scored untouchable was taken
\* in the stable phase
C22_Witness ==
    /\ FillsDone
    /\ \E j, k \in 1..Len(assigned_active) :
          /\ assigned_active[j]["slot_type"] = "stable"
          /\ IsUntouchable(assigned_active[j]["name"])
          /\ HasKey(assigned_active[j], "ht_score")
          /\ assigned_active[k]["slot_type"] = "flex"
          /\ IsUntouchable(assigned_active[k]["name"])
          /\ ~HasKey(assigned_active[k], "ht_score")
          /\ assigned_active[k]["rank_14day"] = 999
          /\ \E n \in CandidatesOf(k) :
                /\ ~IsUntouchable(n)
                /\ HasKey(RosterRecord(n), "ht_score")
                /\ RosterRecord(n)["ht_score"] = 999

(***************************************************************************)
(* C23  Fill selection rule: each slot a fill phase assigns goes to a best *)
(* one of the unassigned candidates eligible for it, by composite score    *)
(* (higher first) when present, else by the 30-day rank in the stable      *)
(* phase and the 14-day rank in the flex phase (missing rank 999); equal   *)
(* candidates are taken in roster order; has_game_today plays no part.     *)
(* Precedence of untouchables over the others is the subject of C22: the   *)
(* comparison here is between candidates of the same standing.             *)
(***************************************************************************)
RosterIndex(n) == CHOOSE i \in 1..Len(roster) : roster[i]["name"] = n

\* rank of the window the class of slot is filled by
WindowRank(p, class) ==
    IF class = "stable"
    THEN IF "ht_rank_30d" \in DOMAIN p THEN p["ht_rank_30d"]
         ELSE IF "yahoo_30day_rank" \in DOMAIN p THEN p["yahoo_30day_rank"] ELSE 999
    ELSE IF "ht_rank_14d" \in DOMAIN p THEN p["ht_rank_14d"]
         ELSE IF "yahoo_14day_rank" \in DOMAIN p THEN p["yahoo_14day_rank"] ELSE 999

\* the single best-first ordering: negated score, else window rank
Signal(n, class) ==
    IF "ht_score" \in DOMAIN RosterRecord(n) THEN -RosterRecord(n)["ht_score"]
    ELSE WindowRank(RosterRecord(n), class)

\* the k-th entry went to a best candidate of its standing, first in
\* roster order among equals
BestChosen(k) ==
    LET c == assigned_active[k]["name"]
        class == assigned_active[k]["slot_type"]
    IN  /\ c \in CandidatesOf(k)
        /\ \A d \in CandidatesOf(k) \ {c} :
              IsUntouchable(d) = IsUntouchable(c) =>
                  \/ Signal(c, class) < Signal(d, class)
                  \/ /\ Signal(c, class) = Signal(d, class)
                     /\ RosterIndex(c) < RosterIndex(d)

\* the unassigned pool at the start, with every has_game_today inverted
FlippedPool ==
    LET NotIl(p) == ~IsIlPlayer(p)
        avail == Filter(roster, NotIl)
    IN  [i \in 1..Len(avail) |->
            [Available(avail[i], untouchables) EXCEPT
                !["has_game_today"] = ~Get(avail[i], "has_game_today", FALSE)]]

\* names and slots the two fill phases give on the flipped pool
FlippedFill ==
    LET st == _fill_slots(STABLE_FILL_ORDER, FALSE, TRUE, FlippedPool, <<>>, untouchables)
        fl == _fill_slots(FLEX_FILL_ORDER, TRUE, FALSE, st.pool, st.active, untouchables)
    IN  [k \in 1..Len(fl.active) |-> <<fl.active[k]["name"], fl.active[k]["slot"]>>]

Rank30Of(n) == Shown(n, "yahoo_30day_rank", 999)

C24_FlagLowRank ==
    pc = "done" =>
        /\ \A k \in 1..Len(assigned_active) :
              LET e == assigned_active[k]
              IN  e["flag_low_rank"] <=>
                     /\ e["slot_type"] = "stable"
                     /\ e["slot"] \in {"PG", "SG", "SF", "PF", "C"}
                     /\ Rank30Of(e["name"]) > 60
        /\ \A k \in 1..Len(assigned_bench) : ~assigned_bench[k]["flag_low_rank"]

\* a guard of 30-day rank 70 promoted into the stable PG slot by a swap is
\* flagged, while a guard of the same rank in a flex slot and the benched
\* players are not
C24_Witness ==
    /\ pc = "done"
    /\ \E s \in 1..Len(swap_log) :
          LET e == assigned_active[swap_log[s].idx]
          IN  /\ e["name"] = swap_log[s].bench_player["name"]
              /\ e["slot"] = "PG"
              /\ e["slot_type"] = "stable"
              /\ Rank30Of(e["name"]) = 70
              /\ e["flag_low_rank"]
    /\ \E k \in 1..Len(assigned_active) :
          /\ assigned_active[k]["slot_type"] = "flex"
          /\ Rank30Of(assigned_active[k]["name"]) = 70
          /\ ~assigned_active[k]["flag_low_rank"]
    /\ Len(assigned_bench) >= 1

(***************************************************************************)
(* C25  flag_injured: every active entry and every bench entry carries     *)
(* flag_injured, true for a player with a game-impacting status (out and   *)
(* injured among them) and false for a healthy player.                     *)
(***************************************************************************)
GameImpacting == {"INJ", "O", "Q", "DTD"}

FlaggedRight(e) ==
    /\ "flag_injured" \in DOMAIN e
    /\ Shown(e["name"], "status", "healthy") \in GameImpacting => e["flag_injured"]
    /\ Shown(e["name"], "status", "healthy") = "healthy" => ~e["flag_injured"]

C25_FlagInjured ==
    pc = "done" =>
        /\ \A k \in 1..Len(assigned_active) : FlaggedRight(assigned_active[k])
        /\ \A k \in 1..Len(assigned_bench) : FlaggedRight(assigned_bench[k])

(***************************************************************************)
(* C26  Drop-candidate scoring: the recommended drop is the non-untouchable *)
(* bench player with the lowest composite score, a player without score    *)
(* counting below every scored one and a position overlap with the         *)
(* returning player lowering the score by 0.5; among equal scores it is    *)
(* the one with the numerically highest recent-window rank.                *)
(***************************************************************************)
\* the eligible positions of a player record, under either field name
PlayerPositions(p) ==
    (IF "positions" \in DOMAIN p THEN p["positions"] ELSE {})
        \cup (IF "eligible_positions" \in DOMAIN p THEN p["eligible_positions"] ELSE {})

\* stands below every composite score
NoScore == -999000

\* score used for the comparison, in thousandths
DropScore(p, returning) ==
    (IF "ht_score" \in DOMAIN p THEN p["ht_score"] ELSE NoScore)
        - (IF PlayerPositions(p) \cap PlayerPositions(returning) # {} THEN 500 ELSE 0)

\* recent-window rank: HT 14-day rank, else the 14-day rank of the entry
RecentRank(p) ==
    IF "ht_rank_14d" \in DOMAIN p THEN p["ht_rank_14d"]
    ELSE IF "rank_14day" \in DOMAIN p THEN p["rank_14day"] ELSE 0

BenchEntryNamed(n) ==
    assigned_bench[CHOOSE k \in 1..Len(assigned_bench) : assigned_bench[k]["name"] = n]

RosterNamed(n) == roster[CHOOSE i \in 1..Len(roster) : roster[i]["name"] = n]

C26_DropScoring ==
    pc = "advisor_done" =>
        \A i \in 1..Len(should_activate_from_il) :
            LET drop == should_activate_from_il[i]["drop_candidate"]
                returning == RosterNamed(should_activate_from_il[i]["name"])
            IN  drop # <<>> =>
                    LET c == BenchEntryNamed(drop[1]["name"])
                    IN  \A k \in 1..Len(assigned_bench) :
                            LET d == assigned_bench[k]
                            IN  d["name"] \notin DOMAIN untouchables =>
                                   \/ DropScore(c, returning) < DropScore(d, returning)
                                   \/ /\ DropScore(c, returning) = DropScore(d, returning)
                                      /\ RecentRank(c) >= RecentRank(d)

(***************************************************************************)
(* main.py steps 4 to 7: roster records and free agents get their          *)
(* composite score as ht_score (and ht_weekly_value), build_lineup runs on *)
(* the roster, and the waiver scanner runs on its active and bench lists.  *)
(* Composite scores are in whole units here, improvements in thousandths.  *)
(***************************************************************************)
MaxPipelineRoster == 4

MaxPipelineFreeAgents == 2

PipelineKinds ==
    << \* 1: scored generic guard, no game today
       [positions |-> {"G"}, status |-> "healthy", current_slot |-> "UTIL",
        has_game_today |-> FALSE, yahoo_30day_rank |-> 30, yahoo_14day_rank |-> 30,
        ht_score |-> 2, games_remaining |-> 2, ht_weekly_value |-> 4],
       \* 2: scored generic guard with a game today, lower score
       [positions |-> {"G"}, status |-> "healthy", current_slot |-> "BN",
        has_game_today |-> TRUE, yahoo_30day_rank |-> 80, yahoo_14day_rank |-> 80,
        ht_score |-> 1, games_remaining |-> 3, ht_weekly_value |-> 3],
       \* 3: generic guard the composite ranking does not know
       [positions |-> {"G"}, status |-> "healthy", current_slot |-> "BN",
        has_game_today |-> FALSE, yahoo_30day_rank |-> 90, yahoo_14day_rank |-> 90,
        games_remaining |-> 1] >>

PipelineFreeAgentKinds ==
    << \* 1: scored guard with top ranks
       [positions |-> {"PG"}, status |-> "healthy", yahoo_30day_rank |-> 10,
        yahoo_14day_rank |-> 10, mpg |-> 300, games_last_30 |-> 10,
        ht_score |-> 3, games_remaining |-> 3, ht_weekly_value |-> 9],
       \* 2: guard with the best score and modest ranks
       [positions |-> {"SG"}, status |-> "healthy", yahoo_30day_rank |-> 85,
        yahoo_14day_rank |-> 85, mpg |-> 300, games_last_30 |-> 10,
        ht_score |-> 4, games_remaining |-> 2, ht_weekly_value |-> 8] >>

PipelineRosterOf(f) ==
    [i \in 1..Len(f) |-> ("name" :> Names[i]) @@ PipelineKinds[f[i]]]

PipelineFreeAgentsOf(f) ==
    [i \in 1..Len(f) |-> ("name" :> FreeAgentNames[i]) @@ PipelineFreeAgentKinds[f[i]]]

PipelineInit ==
    /\ \E f \in UNION {[1..n -> 1..Len(PipelineKinds)] : n \in 0..MaxPipelineRoster} :
          roster = PipelineRosterOf(f)
    /\ \E f \in UNION {[1..n -> 1..Len(PipelineFreeAgentKinds)] :
                         n \in 0..MaxPipelineFreeAgents} :
          free_agents = PipelineFreeAgentsOf(f)
    /\ untouchables = <<>>
    /\ pc = "partition"
    /\ on_il = <<>>
    /\ unassigned = <<>>
    /\ assigned_active = <<>>
    /\ assigned_bench = <<>>
    /\ bench_with_game = <<>>
    /\ swap_pos = 1
    /\ swap_log = <<>>
    /\ il_formatted = <<>>
    /\ should_move_to_il = <<>>
    /\ should_activate_from_il = <<>>
    /\ opportunities = <<>>
    /\ waiver_active = <<>>
    /\ waiver_bench = <<>>
    /\ bench_shape = <<>>

\* step 7 hands the lists of build_lineup to one of the two scans
ScanWaiverWire ==
    /\ pc = "done"
    /\ \E scan \in {"scan_active", "scan_bench"} : pc' = scan
    /\ UNCHANGED <<roster, untouchables, lineupVars, ilVars, waiverVars, bench_shape>>

NextPipeline ==
    \/ Next
    \/ ScanWaiverWire
    \/ NextWaiver

SpecPipeline == PipelineInit /\ [][NextPipeline]_vars

FreeAgentNamed(n) ==
    free_agents[CHOOSE i \in 1..Len(free_agents) : free_agents[i]["name"] = n]

\* C27: an upgrade reported for a free agent and an incumbent that both
\* carry a composite score shows the difference of the two scores (for the
\* bench, of the two weekly values: score times games remaining), not a
\* difference of window ranks.
C27_CompositeAcrossPipeline ==
    pc = "scan_done" /\ roster # <<>> =>
        /\ \A i \in 1..Len(waiver_active) :
              LET opp == waiver_active[i]
                  fa == FreeAgentNamed(opp["fa_name"])
                  incumbent == RosterRecord(opp["replace_player_name"])
              IN  HasKey(fa, "ht_score") /\ HasKey(incumbent, "ht_score") =>
                      opp["rank_improvement"]
                          = 1000 * (fa["ht_score"] - incumbent["ht_score"])
        /\ \A i \in 1..Len(waiver_bench) :
              LET opp == waiver_bench[i]
                  fa == FreeAgentNamed(opp["fa_name"])
                  incumbent == RosterRecord(opp["replace_player_name"])
              IN  HasKey(fa, "ht_score") /\ HasKey(incumbent, "ht_score") =>
                      opp["rank_improvement"]
                          = 1000 * (fa["ht_weekly_value"]
                                    - incumbent["ht_score"] * incumbent["games_remaining"])

\* the candidates of the swap pass, by name, in the order of the pass
Candidates == NamesOf(bench_with_game)

\* players left unassigned with a game today and a playable status
PlayableLeftOver ==
    {n \in LeftOver :
        /\ Get(RosterRecord(n), "has_game_today", FALSE)
        /\ Get(RosterRecord(n), "status", "healthy") \notin {"INJ", "O", "NA"}}

\* positions in the pass of the swaps performed so far: the candidate of
\* the i-th swap
TurnOf(i) ==
    CHOOSE t \in 1..Len(Candidates) : Candidates[t] = swap_log[i].bench_player["name"]

C28_PassState ==
    pc \in {"swap", "done"} =>
        \* each candidate once, best first
        /\ NoDuplicates(Candidates)
        /\ \A i, j \in 1..Len(Candidates) :
              i < j => SelectionKey(Candidates[i]) <= SelectionKey(Candidates[j])
        /\ FillsDone => {Candidates[i] : i \in 1..Len(Candidates)} = PlayableLeftOver
        /\ swap_pos \in 1..(Len(Candidates) + 1)
        /\ pc = "done" => swap_pos = Len(Candidates) + 1
        \* at most one swap per candidate already considered, in pass order
        /\ Len(swap_log) <= swap_pos - 1
        /\ \A i \in 1..Len(swap_log) :
              /\ swap_log[i].bench_player["name"] \in
                    {Candidates[t] : t \in 1..(swap_pos - 1)}
              /\ \A j \in 1..Len(swap_log) : i < j => TurnOf(i) < TurnOf(j)
        \* displaced players are no candidates, promoted players stay
        /\ \A i \in 1..Len(swap_log) :
              /\ swap_log[i].displaced["name"] \notin
                    {Candidates[t] : t \in 1..Len(Candidates)}
              /\ \A j \in 1..Len(swap_log) :
                    i < j => swap_log[j].displaced["name"]
                                 # swap_log[i].bench_player["name"]
              /\ pc = "done" =>
                    \E k \in 1..Len(assigned_active) :
                        assigned_active[k]["name"] = swap_log[i].bench_player["name"]

C28_PassStep ==
    pc = "swap" =>
        /\ pc' = "swap" =>
              /\ swap_pos' = swap_pos + 1
              /\ bench_with_game' = bench_with_game
              /\ \/ swap_log' = swap_log
                 \/ /\ Len(swap_log') = Len(swap_log) + 1
                    /\ SubSeq(swap_log', 1, Len(swap_log)) = swap_log
                    /\ swap_log'[Len(swap_log')].bench_player = bench_with_game[swap_pos]
        /\ pc' = "done" =>
              /\ swap_pos' = swap_pos
              /\ swap_log' = swap_log
              /\ assigned_active' = assigned_active

\* C28: the swap pass takes the players left unassigned with a game today
\* and a playable status after the flex phase once each, best first; every
\* step moves on to the next candidate and performs at most one swap, so
\* the pass ends after at most that many swaps; a displaced player is
\* never a candidate and a promoted player is never displaced later.
C28_OnePassSwap == []C28_PassState /\ [][C28_PassStep]_vars

\* two swaps in one pass, the better candidate first
C28_Witness ==
    /\ pc = "done"
    /\ Len(swap_log) = 2
    /\ swap_log[1].bench_player["yahoo_30day_rank"]
          < swap_log[2].bench_player["yahoo_30day_rank"]

\* active entries with a game today
WithGame(active) == {k \in 1..Len(active) : active[k]["has_game_today"]}

\* a player outside the active list and the IL with a game today and a
\* playable status, and an active entry without a game in a slot he fits
BeneficialSwaps ==
    {<<n, k>> \in PlayableLeftOver \X (1..Len(assigned_active)) :
        /\ ~assigned_active[k]["has_game_today"]
        /\ CanFill(RosterRecord(n), assigned_active[k]["slot"])}

\* C29: in the result of build_lineup no player outside the active list
\* and the IL, with a game today and a status outside {INJ, O, NA}, fits
\* the slot of an active entry that has no game today; during the pass
\* every swap raises the number of active entries with a game by one.
C29_NoBeneficialSwapLeft ==
    /\ pc = "done" => BeneficialSwaps = {}
    /\ \A i \in 1..Len(swap_log) :
          LET after == IF i < Len(swap_log) THEN swap_log[i + 1].before
                       ELSE assigned_active
          IN  Cardinality(WithGame(after))
                  = Cardinality(WithGame(swap_log[i].before)) + 1

\* a core starter without a game made way for a benched player and sits
\* on the bench in the result
C29_Witness ==
    /\ pc = "done"
    /\ \E i \in 1..Len(swap_log) :
          /\ swap_log[i].displaced["slot_type"] = "stable"
          /\ swap_log[i].displaced["name"] \in BenchNamesOut
          /\ \E k \in 1..Len(assigned_active) :
                /\ assigned_active[k]["name"] = swap_log[i].bench_player["name"]
                /\ assigned_active[k]["has_game_today"]

\* places the template has for a (slot, class) pair
PlacesFor(slot, class) ==
    LET t == IF class = "stable" THEN StableTemplate
             ELSE IF class = "flex" THEN FlexTemplate ELSE <<>>
        hits == {i \in 1..Len(t) : t[i][1] = slot}
    IN  IF hits = {} THEN 0 ELSE t[CHOOSE i \in hits : TRUE][2]

\* the i-th swap changed the occupant of one index and nothing else
SameShape(before, after, idx) ==
    /\ Len(after) = Len(before)
    /\ after[idx]["slot"] = before[idx]["slot"]
    /\ after[idx]["slot_type"] = before[idx]["slot_type"]
    /\ after[idx]["name"] # before[idx]["name"]
    /\ \A k \in 1..Len(before) : k # idx => after[k] = before[k]

\* C30: at every point of build_lineup the active list has, for each
\* (slot, class) pair, at most the places of the template: one each for
\* stable C, PG, SG, SF, PF and flex C, G, F, two for flex UTIL, none for
\* anything else; a swap keeps the length of the list and the slot and
\* class at the swapped index and changes only the occupant.
C30_SlotTemplate ==
    /\ \A k \in 1..Len(assigned_active) :
          LET e == assigned_active[k]
          IN  Cardinality(EntriesOf(e["slot"], e["slot_type"]))
                  <= PlacesFor(e["slot"], e["slot_type"])
    /\ Len(assigned_active) <= 10
    /\ \A i \in 1..Len(swap_log) :
          SameShape(swap_log[i].before,
                    IF i < Len(swap_log) THEN swap_log[i + 1].before
                    ELSE assigned_active,
                    swap_log[i].idx)

\* a stable C and both UTIL places taken, a swap performed, and a player
\* who fits UTIL left out
C30_Witness ==
    /\ pc = "done"
    /\ EntriesOf("C", "stable") # {}
    /\ Cardinality(EntriesOf("UTIL", "flex")) = 2
    /\ swap_log # <<>>
    /\ \E n \in LeftOver : CanFill(RosterRecord(n), "UTIL")

====
